---- MODULE Spec2Model ----
(***************************************************************************)
(* A model of dpark/schedule.py: the DAG scheduler driver                  *)
(* (DAGScheduler.runJob and the stage graph builder) and the cluster       *)
(* resource scheduler (MesosScheduler).                                    *)
(*                                                                         *)
(* Indices are 1-based here: output index i of the source is i+1.          *)
(***************************************************************************)
EXTENDS Integers, Sequences, FiniteSets, TLC

(***************************************************************************)
(* Bounds of the model.                                                    *)
(***************************************************************************)
MaxParts == 2      \* partitions of every dataset
MaxRuns == 2       \* runJob calls in one process
MaxFailures == 1   \* tasks of one process that do not succeed
MaxJobs == 2       \* submitTasks calls that reach the cluster scheduler
MaxTasks == 3      \* tasks of one such batch
MaxTried == 1      \* retries of one task of a job
MaxTotal == 3      \* tasks of all these batches together
MaxLost == 1       \* slaveLost and executorLost calls

(***************************************************************************)
(* Program constants.                                                      *)
(***************************************************************************)
MAX_FAILED == 3
\* time is counted in units of 60 * 30 seconds
MAX_IDLE_TIME == 1
EXECUTOR_MEMORY == 64

None == 0          \* Python's None for stage ids, shuffle ids and results

\* cpus are counted in units of 1e-4, the tolerance of line 627
Epsilon == 1

\* The options of the MesosScheduler of this process.
self_cpus == 10000   \* options.cpus = 1.0
self_mem == 100      \* options.mem
task_per_node == 2   \* options.parallel
group == {}          \* options.group: no group filter

(***************************************************************************)
(* Lineage graphs (the dataset collaborator): three datasets with their    *)
(* partition counts, their dependencies (narrow or shuffle) and their      *)
(* shouldCache flags; runJob is called on the dataset final.               *)
(***************************************************************************)
Narrow(r) == [shuffle |-> FALSE, rdd |-> r, shuffleId |-> None]
Shuffle(r, k) == [shuffle |-> TRUE, rdd |-> r, shuffleId |-> k]

Graphs ==
  << \* 1: a single dataset, one result stage
     [final |-> 1, shouldCache |-> {},
      size |-> <<MaxParts, MaxParts, MaxParts>>,
      dependencies |-> <<  <<>>, <<>>, <<>> >>],
     \* 2: rdd2 --shuffle 1--> rdd1
     [final |-> 2, shouldCache |-> {},
      size |-> <<MaxParts, MaxParts, MaxParts>>,
      dependencies |-> <<  <<>>, <<Shuffle(1, 1)>>, <<>> >>],
     \* 3: rdd3 --narrow--> rdd2 (cached) --shuffle 1--> rdd1
     [final |-> 3, shouldCache |-> {2},
      size |-> <<MaxParts, MaxParts, MaxParts>>,
      dependencies |-> <<  <<>>, <<Shuffle(1, 1)>>, <<Narrow(2)>> >>],
     \* 4: rdd3 --shuffle 2--> rdd2 --shuffle 1--> rdd1
     [final |-> 3, shouldCache |-> {},
      size |-> <<MaxParts, MaxParts, MaxParts>>,
      dependencies |-> <<  <<>>, <<Shuffle(1, 1)>>, <<Shuffle(2, 2)>> >>],
     \* 5: rdd3 --shuffle 1--> rdd1 and rdd3 --shuffle 2--> rdd2
     [final |-> 3, shouldCache |-> {},
      size |-> <<1, 1, MaxParts>>,
      dependencies |-> <<  <<>>, <<>>, <<Shuffle(1, 1), Shuffle(2, 2)>> >>]
  >>

Hosts == {"h1"}

VARIABLES
  \* ---- the process (DAGScheduler fields, Stage.nextId, the trackers)
  graph,              \* index of the lineage graph of this process
  keep_order,         \* DAGScheduler.keep_order
  nextId,             \* Stage.nextId
  stages,             \* the live Stage objects, by id
  idToStage,          \* keys of the weak id -> stage dictionary
  shuffleToMapStage,  \* shuffleId -> stage id
  cacheLocs,          \* the scheduler's snapshot: cached (rdd, partition) pairs
  trackerLocs,        \* the cache tracker's (rdd, partition) pairs
  completionEvents,   \* the FIFO queue of CompletionEvents
  shutdownFlag,       \* DAGScheduler._shutdown
  nextTaskId,         \* Task.nextId
  inflight,           \* tasks handed to submitTasks that have not ended yet
  failures,           \* tasks that have ended without success
  \* ---- one run of runJob (the generator's locals)
  pc,                 \* "idle", "loop", "done", "raised", "exit"
  error,              \* the exception that left the generator, or "none"
  runs,               \* runJob calls made so far
  numOutputParts, allowLocal, finalStage,
  results, finished, lastFinished, numFinished,
  waiting, running, failed, pendingTasks,
  \* ---- history of the current run
  yielded,            \* the results yielded, in order
  endedLog,           \* results of this run's result tasks, in taskEnded order
  nSubmit,            \* submitTasks calls made by this run
  created,            \* tasks created by this run
  polled,             \* whether this run called completionEvents.get
  registeredOutputs,  \* the registerMapOutputs calls of this run, in order
  \* ---- MesosScheduler fields
  started, isRegistered,
  activeJobs,         \* keys of the dictionary job id -> job
  activeJobsQueue,    \* job ids in submission order
  taskIdToJobId, taskIdToSlaveId, jobTasks,
  slaveTasks, slaveFailed,
  \* ---- the collaborators of MesosScheduler
  jobs,               \* the SimpleJob objects, by id
  nextJobId,          \* the id of the newest SimpleJob
  submitting,         \* submitTasks is waiting for the registration
  \* ---- history of the cluster layer
  lost,               \* slaveLost and executorLost calls so far
  failedReports,      \* slave -> terminal failures reported since the reset
  \* ---- the threads of the process of the MesosScheduler
  lock,               \* the thread that holds self.lock, or "free"
  op,                 \* thread -> the @safe method it is in, or "idle"
  watchdog,           \* the check threads of start_driver, by their number
  idle,               \* now - last_finish_time, in units of MAX_IDLE_TIME
  \* ---- history of the process
  dropped             \* the shuffle ids whose stage a clear has forgotten

procVars == <<graph, keep_order, nextId, stages, idToStage, shuffleToMapStage,
              cacheLocs, trackerLocs, completionEvents,
              shutdownFlag, nextTaskId, inflight, failures>>
runVars == <<pc, error, runs, numOutputParts, allowLocal, finalStage,
             results, finished, lastFinished, numFinished,
             waiting, running, failed, pendingTasks>>
histVars == <<yielded, endedLog, nSubmit, created, polled, registeredOutputs>>
dagVars == <<procVars, runVars, histVars>>
mesosVars == <<started, isRegistered, activeJobs, activeJobsQueue,
               taskIdToJobId, taskIdToSlaveId, jobTasks, slaveTasks,
               slaveFailed, jobs, nextJobId, submitting,
               lost, failedReports>>
threadVars == <<lock, op, watchdog, idle>>
otherVars == <<threadVars, dropped>>
vars == <<dagVars, mesosVars, threadVars, dropped>>

G == Graphs[graph]
len(r) == G.size[r]

Min(S) == CHOOSE x \in S : \A y \in S : x <= y

(***************************************************************************)
(* Stage graph builder.  The operators thread the store                    *)
(*   st = [nextId, stages, idToStage, shuffleToMapStage]                   *)
(* through the calls, as the methods mutate the scheduler.                 *)
(* cacheTracker.registerRDD (line 163) only tells the external tracker     *)
(* the partition count and is not modelled.                                *)
(***************************************************************************)
Store == [nextId |-> nextId, stages |-> stages, idToStage |-> idToStage,
          shuffleToMapStage |-> shuffleToMapStage]

\* Stage.isAvailable
isAvailable(stage) ==
  IF stage.parents = {} /\ stage.shuffleDep = None
  THEN TRUE
  ELSE \A p \in DOMAIN stage.outputLocs : stage.outputLocs[p] # <<>>

RECURSIVE getParentStages(_, _), visitParents(_, _), visitParentDeps(_, _, _),
          visitParentDep(_, _), newStage(_, _, _), getShuffleMapStage(_, _)

\* Stage.__init__ after the parents g = [st, parents] have been built:
\* lines 56-62 and 151
makeStage(g, rdd, shuffleDep) ==
  [st |-> [g.st EXCEPT !.nextId = @ + 1,
                       !.stages = ((g.st.nextId + 1) :>
                                     [rdd |-> rdd, shuffleDep |-> shuffleDep,
                                      parents |-> g.parents,
                                      outputLocs |-> [p \in 1..len(rdd) |-> <<>>]])
                                  @@ @,
                       !.idToStage = @ \cup {g.st.nextId + 1}],
   stage |-> g.st.nextId + 1]

\* DAGScheduler.newStage: the parents are built first (the argument of
\* Stage(...)), then Stage.__init__ draws the id.
newStage(st, rdd, shuffleDep) ==
  makeStage(getParentStages(st, rdd), rdd, shuffleDep)

\* a variant of line 176 that does not remember the stage
memoStageForgotten(n, k) == n

\* line 176: remember the new stage n = [st, stage] of shuffle k
memoStage(n, k) ==
  [st |-> [n.st EXCEPT !.shuffleToMapStage = (k :> n.stage) @@ @],
   stage |-> n.stage]

\* DAGScheduler.getShuffleMapStage
getShuffleMapStage(st, dep) ==
  IF dep.shuffleId \in DOMAIN st.shuffleToMapStage
  THEN [st |-> st, stage |-> st.shuffleToMapStage[dep.shuffleId]]
  ELSE memoStage(newStage(st, dep.rdd, dep.shuffleId), dep.shuffleId)

\* line 166: parents.add(stage)
addParent(acc, s) ==
  [acc EXCEPT !.st = s.st, !.parents = @ \cup {s.stage}]

\* lines 165-168: one dependency in getParentStages.visit
visitParentDep(acc, dep) ==
  IF dep.shuffle
  THEN addParent(acc, getShuffleMapStage(acc.st, dep))
  ELSE visitParents(acc, dep.rdd)

\* the loop over r.dependencies in getParentStages.visit, from dependency i
visitParentDeps(acc, r, i) ==
  IF i > Len(G.dependencies[r])
  THEN acc
  ELSE visitParentDeps(visitParentDep(acc, G.dependencies[r][i]), r, i + 1)

\* line 161: visited.add(r.id)
markVisited(acc, r) == [acc EXCEPT !.visited = @ \cup {r}]

\* getParentStages.visit
visitParents(acc, r) ==
  IF r \in acc.visited
  THEN acc
  ELSE visitParentDeps(markVisited(acc, r), r, 1)

\* DAGScheduler.getParentStages
getParentStages(st, rdd) ==
  visitParents([st |-> st, parents |-> {}, visited |-> {}], rdd)

\* all(self.getCacheLocs(r)): every partition of r has a cached location
allCacheLocs(locs, r) == \A p \in 1..len(r) : <<r, p>> \in locs

RECURSIVE visitMissing(_, _, _), visitMissingDeps(_, _, _, _),
          visitMissingDep(_, _, _)

\* lines 192-193: the stage s = [st, stage] of a shuffle dependency
addMissing(acc, s) ==
  [acc EXCEPT !.st = s.st,
              !.missing = IF isAvailable(s.st.stages[s.stage])
                          THEN @ ELSE @ \cup {s.stage}]

\* lines 190-195: one dependency in getMissingParentStages.visit
visitMissingDep(acc, locs, dep) ==
  IF dep.shuffle
  THEN addMissing(acc, getShuffleMapStage(acc.st, dep))
  ELSE visitMissing(acc, locs, dep.rdd)

\* the loop over r.dependencies in getMissingParentStages.visit
visitMissingDeps(acc, locs, r, i) ==
  IF i > Len(G.dependencies[r])
  THEN acc
  ELSE visitMissingDeps(visitMissingDep(acc, locs, G.dependencies[r][i]),
                        locs, r, i + 1)

\* getMissingParentStages.visit
visitMissing(acc, locs, r) ==
  IF r \in acc.visited
  THEN acc
  ELSE IF r \in G.shouldCache /\ allCacheLocs(locs, r)
       THEN markVisited(acc, r)
       ELSE visitMissingDeps(markVisited(acc, r), locs, r, 1)

\* DAGScheduler.getMissingParentStages: [st, missing, visited]
getMissingParentStages(st, locs, stage) ==
  visitMissing([st |-> st, missing |-> {}, visited |-> {}], locs,
               st.stages[stage].rdd)

(***************************************************************************)
(* runJob's nested functions.  They thread the context                     *)
(*   ctx = [st, waiting, running, pendingTasks, nextTaskId, inflight,      *)
(*          nSubmit, created]                                              *)
(* and read fin = [finalStage, n, finished, locs] of the enclosing call.   *)
(* Preferred locations (lines 246-251, 257-262) only fill a field of the   *)
(* task that the driver never reads; they are not modelled.                *)
(***************************************************************************)
Sorted(S) ==
  CHOOSE f \in [1..Cardinality(S) -> S] :
    \A i, j \in 1..Cardinality(S) : i < j => f[i] < f[j]

\* Task ids (task.py is a collaborator): a process-wide counter.
newTaskIds(next, k) == next + k

\* DAGScheduler.submitTasks is abstract: the batch goes to the cluster layer,
\* where every task will end once.
selfSubmitTasks(ctx, tasks) ==
  [ctx EXCEPT !.inflight = @ \cup tasks,
              !.nSubmit = @ + 1]

\* the indices submitMissingTasks makes tasks for: lines 243-244, 255-256
missingIndices(ctx, stage, fin) ==
  Sorted(IF stage = fin.finalStage
         THEN {i \in 1..fin.n : ~fin.finished[i]}
         ELSE {p \in DOMAIN ctx.st.stages[stage].outputLocs :
                 ctx.st.stages[stage].outputLocs[p] = <<>>})

\* lines 252-253, 263-264: the tasks for the indices idx
makeTasks(ctx, stage, fin, idx) ==
  {[id |-> newTaskIds(ctx.nextTaskId, k),
    stageId |-> stage,
    kind |-> IF stage = fin.finalStage THEN "ResultTask" ELSE "ShuffleMapTask",
    rdd |-> ctx.st.stages[stage].rdd,
    partition |-> idx[k],
    outputId |-> IF stage = fin.finalStage THEN idx[k] ELSE None]
   : k \in DOMAIN idx}

\* lines 239, 266: the ids of the tasks join the pending set of the stage
addPending(ctx, stage, tasks) ==
  [ctx EXCEPT !.pendingTasks =
                 (stage :> ((IF stage \in DOMAIN ctx.pendingTasks
                             THEN ctx.pendingTasks[stage] ELSE {})
                            \cup {t.id : t \in tasks})) @@ @,
              !.nextTaskId = @ + Cardinality(tasks),
              !.created = @ \cup tasks]

\* lines 266-267
pendAndSubmit(ctx, stage, tasks) ==
  selfSubmitTasks(addPending(ctx, stage, tasks), tasks)

\* runJob.submitMissingTasks
submitMissingTasks(ctx, stage, fin) ==
  pendAndSubmit(ctx, stage,
                makeTasks(ctx, stage, fin, missingIndices(ctx, stage, fin)))

RECURSIVE submitStage(_, _, _), submitStages(_, _, _), submitWith(_, _, _, _)

\* the loop "for parent in missing: submitStage(parent)", in ascending id
\* order (the order of a Python set only decides the numbering of the tasks)
submitStages(ctx, missing, fin) ==
  IF missing = {}
  THEN ctx
  ELSE submitStages(submitStage(ctx, Min(missing), fin),
                    missing \ {Min(missing)}, fin)

setStore(ctx, st) == [ctx EXCEPT !.st = st]
addRunning(ctx, stage) == [ctx EXCEPT !.running = @ \cup {stage}]
addWaiting(ctx, stage) == [ctx EXCEPT !.waiting = @ \cup {stage}]

\* a variant of lines 230-236 that does not record a stage with missing
\* parents in waiting
submitWithNoWaiting(m, ctx, stage, fin) ==
  IF m.missing = {}
  THEN addRunning(submitMissingTasks(setStore(ctx, m.st), stage, fin), stage)
  ELSE submitStages(setStore(ctx, m.st), m.missing, fin)

\* lines 230-236, with m the result of getMissingParentStages
submitWith(m, ctx, stage, fin) ==
  IF m.missing = {}
  THEN addRunning(submitMissingTasks(setStore(ctx, m.st), stage, fin), stage)
  ELSE addWaiting(submitStages(setStore(ctx, m.st), m.missing, fin), stage)

\* runJob.submitStage
submitStage(ctx, stage, fin) ==
  IF stage \notin ctx.waiting /\ stage \notin ctx.running
  THEN submitWith(getMissingParentStages(ctx.st, fin.locs, stage),
                  ctx, stage, fin)
  ELSE ctx

RECURSIVE submitAll(_, _, _)
\* the loop "for stage in newlyRunnable: submitMissingTasks(stage)"
submitAll(ctx, todo, fin) ==
  IF todo = {}
  THEN ctx
  ELSE submitAll(submitMissingTasks(ctx, Min(todo), fin), todo \ {Min(todo)}, fin)

Ctx == [st |-> Store, waiting |-> waiting, running |-> running,
        pendingTasks |-> pendingTasks, nextTaskId |-> nextTaskId,
        inflight |-> inflight, nSubmit |-> nSubmit, created |-> created]

\* write a context back to the variables
SetCtx(c) ==
  /\ nextId' = c.st.nextId
  /\ stages' = c.st.stages
  /\ idToStage' = c.st.idToStage
  /\ shuffleToMapStage' = c.st.shuffleToMapStage
  /\ waiting' = c.waiting
  /\ running' = c.running
  /\ pendingTasks' = c.pendingTasks
  /\ nextTaskId' = c.nextTaskId
  /\ inflight' = c.inflight
  /\ nSubmit' = c.nSubmit
  /\ created' = c.created

\* func(finalRdd.iterator(split)) for output index i: the value stands for
\* the output it belongs to
resultOf(i) == i

\* any(results)
anyResults(res) == \E i \in DOMAIN res : res[i] # None

\* a variant that tests at the bottom of the loop: the body runs once first
loopTestAtBottom(nf, n, res) ==
  IF nf # n \/ nf = 0 THEN [pc |-> "loop", error |-> "none"]
  ELSE IF anyResults(res) THEN [pc |-> "raised", error |-> "AssertionError"]
  ELSE [pc |-> "done", error |-> "none"]

\* the test of "while numFinished != numOutputParts" and the code after the
\* loop: [pc, error] once the loop test has run
loopTest(nf, n, res) ==
  IF nf # n THEN [pc |-> "loop", error |-> "none"]
  ELSE IF anyResults(res) THEN [pc |-> "raised", error |-> "AssertionError"]
  ELSE [pc |-> "done", error |-> "none"]

(***************************************************************************)
(* The body of runJob's loop for one dequeued event.  An outcome           *)
(*   o = [pc, error, ctx, results, finished, lastFinished, numFinished,    *)
(*        yielded, cacheLocs, registeredOutputs]                                  *)
(* collects what the iteration has assigned so far.                        *)
(* Accumulator.merge (line 296) acts on the accumulator registry only and  *)
(* is not modelled.                                                        *)
(***************************************************************************)
Outcome == [pc |-> "loop", error |-> "none", ctx |-> Ctx, results |-> results,
            finished |-> finished, lastFinished |-> lastFinished,
            numFinished |-> numFinished, yielded |-> yielded,
            cacheLocs |-> cacheLocs, registeredOutputs |-> registeredOutputs]

\* an exception leaves the generator
raise(o, e) == [o EXCEPT !.pc = "raised", !.error = e]

Fin(o) == [finalStage |-> finalStage, n |-> numOutputParts,
           finished |-> o.finished, locs |-> o.cacheLocs]

RECURSIVE drain(_)
\* lines 302-305: yield the buffered results from lastFinished on
drain(o) ==
  IF o.lastFinished < numOutputParts /\ o.finished[o.lastFinished + 1]
  THEN drain([o EXCEPT !.yielded = Append(@, o.results[o.lastFinished + 1]),
                       !.results[o.lastFinished + 1] = None,
                       !.lastFinished = @ + 1])
  ELSE o

\* lines 298-299
markFinished(o, task) ==
  [o EXCEPT !.finished[task.outputId] = TRUE, !.numFinished = @ + 1]

\* line 301
bufferResult(o, task, evt) == [o EXCEPT !.results[task.outputId] = evt.result]

\* a variant of lines 300-307 that yields on arrival whatever keep_order says
yieldOnArrival(o, task, evt) == [o EXCEPT !.yielded = Append(@, evt.result)]

\* lines 300-307, after finished and numFinished have been set
yieldResults(o, task, evt) ==
  IF keep_order
  THEN drain(bufferResult(o, task, evt))
  ELSE [o EXCEPT !.yielded = Append(@, evt.result)]

\* lines 297-307: Success of a ResultTask
resultTaskSuccess(o, task, evt) ==
  yieldResults(markFinished(o, task), task, evt)

\* a variant of line 320 that takes every waiting stage for runnable
noteRunnableAnyway(acc, s, m) ==
  [ctx |-> setStore(acc.ctx, m.st), found |-> acc.found \cup {s}]

\* line 320, one waiting stage s: m is getMissingParentStages of it
noteRunnable(acc, s, m) ==
  [ctx |-> setStore(acc.ctx, m.st),
   found |-> IF m.missing = {} THEN acc.found \cup {s} ELSE acc.found]

RECURSIVE newlyRunnable(_, _, _)
\* line 320: the waiting stages without missing parents; acc = [ctx, found]
newlyRunnable(acc, todo, locs) ==
  IF todo = {}
  THEN acc
  ELSE newlyRunnable(
         noteRunnable(acc, Min(todo),
                      getMissingParentStages(acc.ctx.st, locs, Min(todo))),
         todo \ {Min(todo)}, locs)

\* lines 321-322
moveRunnable(ctx, found) ==
  [ctx EXCEPT !.waiting = @ \ found, !.running = @ \cup found]

\* lines 321-325, with nr = [ctx, found] the newly runnable stages
submitRunnable(o, nr) ==
  [o EXCEPT !.ctx = submitAll(moveRunnable(nr.ctx, nr.found), nr.found, Fin(o))]

\* lines 319-325
wakeWaiting(o) ==
  submitRunnable(o, newlyRunnable([ctx |-> o.ctx, found |-> {}],
                                  o.ctx.waiting, o.cacheLocs))

\* line 318: [l[0] for l in stage.outputLocs]
firstHosts(outputLocs) == [p \in DOMAIN outputLocs |-> outputLocs[p][1]]

\* lines 315-319 for the Stage object S
registerMapOutputs(o, S) ==
  IF S.shuffleDep # None /\ \E p \in DOMAIN S.outputLocs : S.outputLocs[p] = <<>>
  THEN raise(o, "IndexError")
  ELSE [o EXCEPT !.registeredOutputs =
                    IF S.shuffleDep # None
                    THEN Append(@, [shuffleId |-> S.shuffleDep,
                                    locs |-> firstHosts(S.outputLocs)])
                    ELSE @,
                 !.cacheLocs = trackerLocs]

\* the rest of the iteration unless an exception has left the generator
andThenWake(o) == IF o.pc = "raised" THEN o ELSE wakeWaiting(o)

\* line 314: running.remove(stage)
removeRunning(o, stage) == [o EXCEPT !.ctx.running = @ \ {stage}]

\* lines 312-325: the stage of the task has no pending task left
stageFinished(o, stage) ==
  IF stage \notin o.ctx.running
  THEN raise(o, "KeyError")
  ELSE andThenWake(registerMapOutputs(removeRunning(o, stage),
                                      o.ctx.st.stages[stage]))

\* line 311: stage.addOutputLoc(task.partition, evt.result)
addOutputLoc(o, stage, partition, host) ==
  [o EXCEPT !.ctx.st.stages[stage].outputLocs[partition] = Append(@, host)]

\* line 312
whenNonePending(o, stage) ==
  IF o.ctx.pendingTasks[stage] = {} THEN stageFinished(o, stage) ELSE o

\* lines 309-325: Success of a ShuffleMapTask
shuffleMapTaskSuccess(o, task, evt) ==
  whenNonePending(addOutputLoc(o, task.stageId, task.partition, evt.result),
                  task.stageId)

\* a variant of lines 326-332 that raises a FetchFailed reason as well
taskFailedAlwaysRaises(o, evt) == raise(o, "OtherFailure")

\* lines 326-332: the task did not succeed
taskFailed(o, evt) ==
  IF evt.reason = "FetchFailed"
  THEN o
  ELSE raise(o, "OtherFailure")

\* line 294: pendingTasks[stage].remove(task.id)
removePending(o, task) ==
  [o EXCEPT !.ctx.pendingTasks[task.stageId] = @ \ {task.id}]

\* lines 295-332, after the task has left the pending set
dispatch(o, evt) ==
  IF evt.reason = "Success"
  THEN IF evt.task.kind = "ResultTask"
       THEN resultTaskSuccess(o, evt.task, evt)
       ELSE shuffleMapTaskSuccess(o, evt.task, evt)
  ELSE taskFailed(o, evt)

\* lines 289-332
handleEvent(o, evt) ==
  IF evt.task.stageId \notin o.ctx.st.idToStage
  THEN raise(o, "KeyError")
  ELSE IF evt.task.stageId \notin DOMAIN o.ctx.pendingTasks
  THEN o
  ELSE IF evt.task.id \notin o.ctx.pendingTasks[evt.task.stageId]
  THEN raise(o, "KeyError")
  ELSE dispatch(removePending(o, evt.task), evt)

\* the loop test after an iteration that raised nothing
afterIteration(o) ==
  IF o.pc = "loop"
  THEN loopTest(o.numFinished, numOutputParts, o.results)
  ELSE [pc |-> o.pc, error |-> o.error]

\* write an outcome back
SetOutcome(o) ==
  /\ SetCtx(o.ctx)
  /\ pc' = afterIteration(o).pc
  /\ error' = afterIteration(o).error
  /\ results' = o.results
  /\ finished' = o.finished
  /\ lastFinished' = o.lastFinished
  /\ numFinished' = o.numFinished
  /\ yielded' = o.yielded
  /\ cacheLocs' = o.cacheLocs
  /\ registeredOutputs' = o.registeredOutputs

(***************************************************************************)
(* The DAG driver: its state after construction and its steps.             *)
(***************************************************************************)
InitDag ==
  /\ graph \in 1..Len(Graphs)
  /\ keep_order \in BOOLEAN
  /\ nextId = 0
  /\ stages = <<>>
  /\ idToStage = {}
  /\ shuffleToMapStage = <<>>
  /\ cacheLocs = {}
  /\ trackerLocs = {}
  /\ completionEvents = <<>>
  /\ shutdownFlag = FALSE
  /\ nextTaskId = 0
  /\ inflight = {}
  /\ failures = 0
  /\ pc = "idle"
  /\ error = "none"
  /\ runs = 0
  /\ numOutputParts = 0
  /\ allowLocal = FALSE
  /\ finalStage = None
  /\ results = <<>>
  /\ finished = <<>>
  /\ lastFinished = 0
  /\ numFinished = 0
  /\ waiting = {}
  /\ running = {}
  /\ failed = {}
  /\ pendingTasks = <<>>
  /\ yielded = <<>>
  /\ endedLog = <<>>
  /\ nSubmit = 0
  /\ created = {}
  /\ polled = FALSE
  /\ registeredOutputs = <<>>

\* a variant of line 221 without the "no missing parents" alternative
runLocallyNoParents(local, parents, missing, n) ==
  local /\ parents = {} /\ n = 1

\* line 221: the test of the local fast path
runLocally(local, parents, missing, n) ==
  local /\ (parents = {} \/ missing = {}) /\ n = 1

\* DAGScheduler.runJob up to the first test of the loop: lines 200-271.
\* partitions is the list of the first n partitions of the final dataset.
runJob(n, local) ==
  /\ pc \in {"idle", "done", "raised"}
  /\ runs < MaxRuns
  /\ LET ns == newStage(Store, G.final, None)
         locs == trackerLocs
         m == getMissingParentStages(ns.st, locs, ns.stage)
         fin == [finalStage |-> ns.stage, n |-> n,
                 finished |-> [i \in 1..n |-> FALSE], locs |-> locs]
         c0 == [st |-> m.st, waiting |-> {}, running |-> {},
                pendingTasks |-> <<>>, nextTaskId |-> nextTaskId,
                inflight |-> inflight, nSubmit |-> 0, created |-> {}]
         fast == runLocally(local, m.st.stages[ns.stage].parents, m.missing, n)
         c == IF fast THEN c0 ELSE submitStage(c0, ns.stage, fin)
         t == IF fast THEN [pc |-> "done", error |-> "none"]
              ELSE loopTest(0, n, [i \in 1..n |-> None])
     IN /\ SetCtx(c)
        /\ pc' = t.pc
        /\ error' = t.error
        /\ yielded' = IF fast THEN <<resultOf(1)>> ELSE <<>>
        /\ finalStage' = ns.stage
        /\ cacheLocs' = locs
  /\ runs' = runs + 1
  /\ numOutputParts' = n
  /\ allowLocal' = local
  /\ results' = [i \in 1..n |-> None]
  /\ finished' = [i \in 1..n |-> FALSE]
  /\ lastFinished' = 0
  /\ numFinished' = 0
  /\ failed' = {}
  /\ endedLog' = <<>>
  /\ polled' = FALSE
  /\ registeredOutputs' = <<>>
  /\ UNCHANGED <<graph, keep_order, trackerLocs, completionEvents,
                 shutdownFlag, failures>>
  /\ UNCHANGED mesosVars

\* DAGScheduler.taskEnded: line 141
taskEnded(q, task, reason, result) ==
  Append(q, [task |-> task, reason |-> reason, result |-> result])

\* a variant of the queue that hands out the newest event first
queueGetNewest(q) == [evt |-> q[Len(q)], rest |-> SubSeq(q, 1, Len(q) - 1)]

\* completionEvents.get(False) on a queue that is not empty: line 273
queueGet(q) == [evt |-> Head(q), rest |-> Tail(q)]

RECURSIVE narrowClosure(_)
\* the datasets a task of a stage with dataset r computes
narrowClosure(r) ==
  {r} \cup UNION {narrowClosure(G.dependencies[r][i].rdd) :
                    i \in {j \in DOMAIN G.dependencies[r] :
                             ~G.dependencies[r][j].shuffle}}

\* a task of dataset r reads shuffle output
fetches(r) ==
  \E x \in narrowClosure(r) :
    \E i \in DOMAIN G.dependencies[x] : G.dependencies[x][i].shuffle

\* the cache tracker learns the partitions a successful task has cached
cachedBy(task) ==
  {<<r, task.partition>> : r \in narrowClosure(task.rdd) \cap G.shouldCache}

\* The cluster layer: a submitted task ends, once, and its completion is
\* reported through taskEnded.
TaskEnd(task, reason, host) ==
  /\ task \in inflight
  /\ reason = "FetchFailed" => fetches(task.rdd)
  /\ reason # "Success" => failures < MaxFailures
  /\ failures' = IF reason = "Success" THEN failures ELSE failures + 1
  /\ LET result == IF reason # "Success" THEN None
                   ELSE IF task.kind = "ResultTask"
                        THEN resultOf(task.outputId) ELSE host
     IN /\ completionEvents' = taskEnded(completionEvents, task, reason, result)
        /\ endedLog' = IF /\ task.stageId = finalStage
                          /\ task.kind = "ResultTask"
                          /\ reason = "Success"
                       THEN Append(endedLog, result) ELSE endedLog
  /\ inflight' = inflight \ {task}
  /\ trackerLocs' = IF reason = "Success"
                    THEN trackerLocs \cup cachedBy(task) ELSE trackerLocs
  /\ UNCHANGED <<graph, keep_order, nextId, stages, idToStage,
                 shuffleToMapStage, cacheLocs, shutdownFlag, nextTaskId>>
  /\ UNCHANGED runVars
  /\ UNCHANGED <<yielded, nSubmit, created, polled, registeredOutputs>>
  /\ UNCHANGED mesosVars

\* One iteration of the loop with an event in the queue: lines 271-332.
HandleEvent ==
  /\ pc = "loop"
  /\ completionEvents # <<>>
  /\ LET g == queueGet(completionEvents)
     IN /\ completionEvents' = g.rest
        /\ SetOutcome(handleEvent(Outcome, g.evt))
  /\ polled' = TRUE
  /\ UNCHANGED <<graph, keep_order, trackerLocs, shutdownFlag, failures>>
  /\ UNCHANGED <<runs, numOutputParts, allowLocal, finalStage, failed>>
  /\ UNCHANGED endedLog
  /\ UNCHANGED mesosVars

RECURSIVE resubmit(_, _, _)
\* lines 282-283: for stage in failed: submitStage(stage)
resubmit(ctx, todo, fin) ==
  IF todo = {}
  THEN ctx
  ELSE resubmit(submitStage(ctx, Min(todo), fin), todo \ {Min(todo)}, fin)

\* One iteration of the loop on an empty queue: lines 271-287.  check() of
\* DAGScheduler does nothing; lastFetchFailureTime stays 0, so the timeout
\* of line 279 has always passed.
EmptyPoll ==
  /\ pc = "loop"
  /\ completionEvents = <<>>
  /\ polled' = TRUE
  /\ IF shutdownFlag
     THEN /\ pc' = "exit"
          /\ error' = "SystemExit"
          /\ UNCHANGED <<failed, cacheLocs>>
          /\ SetCtx(Ctx)
     ELSE IF failed # {}
     THEN /\ cacheLocs' = trackerLocs
          /\ SetCtx(resubmit(Ctx, failed,
                             [finalStage |-> finalStage, n |-> numOutputParts,
                              finished |-> finished, locs |-> trackerLocs]))
          /\ failed' = {}
          /\ UNCHANGED <<pc, error>>
     ELSE /\ SetCtx(Ctx)
          /\ UNCHANGED <<pc, error, failed, cacheLocs>>
  /\ UNCHANGED <<graph, keep_order, trackerLocs, completionEvents,
                 shutdownFlag, failures>>
  /\ UNCHANGED <<runs, numOutputParts, allowLocal, finalStage, results,
                 finished, lastFinished, numFinished>>
  /\ UNCHANGED <<yielded, endedLog, registeredOutputs>>
  /\ UNCHANGED mesosVars

\* DAGScheduler.shutdown, called while a run is polling
shutdown ==
  /\ pc = "loop"
  /\ ~shutdownFlag
  /\ shutdownFlag' = TRUE
  /\ UNCHANGED <<graph, keep_order, nextId, stages, idToStage,
                 shuffleToMapStage, cacheLocs, trackerLocs, completionEvents,
                 nextTaskId, inflight, failures>>
  /\ UNCHANGED runVars
  /\ UNCHANGED histVars
  /\ UNCHANGED mesosVars

RECURSIVE closure(_, _)
\* the stages reachable from S over Stage.parents
closure(st, S) ==
  LET n == S \cup UNION {st[x].parents : x \in S}
  IN IF n = S THEN S ELSE closure(st, n)

\* the stages something still refers to: the values of shuffleToMapStage
\* and, while the generator is running, its locals
referenced ==
  closure(stages,
          {shuffleToMapStage[k] : k \in DOMAIN shuffleToMapStage}
          \cup (IF pc = "loop"
                THEN {finalStage} \cup waiting \cup running \cup failed
                     \cup DOMAIN pendingTasks
                ELSE {}))

\* A Stage nothing refers to is collected and leaves the weak idToStage
\* at a time the runtime chooses.
Collect(s) ==
  /\ s \in DOMAIN stages
  /\ s \notin referenced
  /\ stages' = [x \in DOMAIN stages \ {s} |-> stages[x]]
  /\ idToStage' = idToStage \ {s}
  /\ UNCHANGED <<graph, keep_order, nextId, shuffleToMapStage, cacheLocs,
                 trackerLocs, completionEvents, shutdownFlag, nextTaskId,
                 inflight, failures>>
  /\ UNCHANGED runVars
  /\ UNCHANGED histVars
  /\ UNCHANGED mesosVars

\* DAGScheduler.clear between two runs: lines 119-124.  The stages lose
\* their last references with shuffleToMapStage and are not kept.
clear ==
  /\ pc \in {"done", "raised"}
  /\ runs < MaxRuns
  /\ idToStage # {}
  /\ idToStage' = {}
  /\ shuffleToMapStage' = <<>>
  /\ dropped' = dropped \cup DOMAIN shuffleToMapStage
  /\ cacheLocs' = {}
  /\ trackerLocs' = {}
  /\ stages' = <<>>
  /\ UNCHANGED <<graph, keep_order, nextId, completionEvents, shutdownFlag,
                 nextTaskId, inflight, failures>>
  /\ UNCHANGED runVars
  /\ UNCHANGED histVars
  /\ UNCHANGED mesosVars

(***************************************************************************)
(* The cluster resource scheduler: MesosScheduler.                         *)
(*                                                                         *)
(* A Mesos task id "jobId:taskId:tried" is the tuple <<jobId, taskId,      *)
(* tried>>.  A dictionary is a function on its keys.                       *)
(***************************************************************************)
Get(d, k, default) == IF k \in DOMAIN d THEN d[k] ELSE default
Put(d, k, v) == [x \in DOMAIN d \cup {k} |-> IF x = k THEN v ELSE d[x]]
Del(d, k) == [x \in DOMAIN d \ {k} |-> d[x]]
Empty == <<>>

Slaves == {"s1", "s2"}

\* tasks[0].rdd.mem of a batch: None or an override of the default
RddMems == {None, 150}

\* The offers the broker makes: a slave with its cpus (in units of 1e-4), its
\* mem and its group attribute.
OfferShapes ==
  { [cpus |-> 80000, mem |-> 32],        \* less mem than the executor takes
    [cpus |-> 9999, mem |-> 264],        \* cpus within the tolerance of 1.0
    [cpus |-> 20000, mem |-> 264],       \* room for two tasks
    [cpus |-> 640000, mem |-> 65536] }   \* a large offer
Offers ==
  { [slave |-> s, cpus |-> x.cpus, mem |-> x.mem, attr |-> "none"] :
      s \in Slaves, x \in OfferShapes }
Offer(s, c, m) == [slave |-> s, cpus |-> c, mem |-> m, attr |-> "none"]

\* the lists of offers of a resourceOffers call: every offer alone, and
\* some offers together
OfferLists ==
  {<<o>> : o \in Offers}
    \cup { <<Offer("s1", 80000, 32), Offer("s2", 20000, 264)>>,
           <<Offer("s1", 20000, 264), Offer("s1", 20000, 264)>>,
           <<Offer("s2", 20000, 264), Offer("s1", 20000, 264)>> }

\* the Mesos task ids a status update can name
TaskIds == (1..MaxJobs) \X (1..MaxTasks) \X (0..MaxTried)

TerminalStates == {"TASK_FINISHED", "TASK_FAILED", "TASK_LOST"}
TaskStates == {"TASK_RUNNING"} \cup TerminalStates

\* MesosScheduler.__init__ and init_job
InitMesos ==
  /\ started = FALSE
  /\ isRegistered = FALSE
  /\ activeJobs = {}
  /\ activeJobsQueue = <<>>
  /\ taskIdToJobId = Empty
  /\ taskIdToSlaveId = Empty
  /\ jobTasks = Empty
  /\ slaveTasks = Empty
  /\ slaveFailed = Empty
  /\ jobs = Empty
  /\ nextJobId = 0
  /\ submitting = FALSE
  /\ lost = 0
  /\ failedReports = [s \in Slaves |-> 0]

\* the thread of the caller of the scheduler and the thread of the broker's
\* callbacks
Threads == {"caller", "broker"}

\* no thread is in the scheduler and no driver has been started
InitThreads ==
  /\ lock = "free"
  /\ op = [t \in Threads |-> "idle"]
  /\ watchdog = [w \in 1..MaxJobs |-> "none"]
  /\ idle = 0
  /\ dropped = {}

Init == InitDag /\ InitMesos /\ InitThreads

\* SimpleJob(sched, tasks, cpus, mem) for a batch of k tasks: the tasks that
\* wait for a launch are pairs <<task id, tried>>
SimpleJob(k, c, m) ==
  [cpus |-> c, mem |-> m, n |-> k, todo |-> {<<t, 0>> : t \in 1..k}]

\* the next task of a set of waiting tasks
nextTask(todo) ==
  CHOOSE t \in todo : \A u \in todo : t[1] < u[1] \/ (t[1] = u[1] /\ t[2] <= u[2])

\* the None that slaveOffer returns
NoTask == <<>>

\* job.slaveOffer(host, cpus, mem): the next task if it fits, else None
slaveOffer(job, c, m) ==
  IF job.todo = {} \/ c < job.cpus \/ m < job.mem
  THEN NoTask
  ELSE nextTask(job.todo)

\* job.statusUpdate(task_id, tried, state, ...): a task that failed or was
\* lost waits for its next attempt, up to the retry limit
jobStatusUpdate(job, t, state) ==
  IF state \in {"TASK_FAILED", "TASK_LOST"} /\ t[2] < MaxTried
  THEN [job EXCEPT !.todo = @ \cup {<<t[1], t[2] + 1>>}]
  ELSE job

\* the tasks of all batches so far
submitted ==
  LET RECURSIVE sum(_)
      sum(S) == IF S = {} THEN 0
                ELSE LET j == CHOOSE x \in S : TRUE
                     IN jobs[j].n + sum(S \ {j})
  IN sum(DOMAIN jobs)

\* MesosScheduler.submitTasks with a batch of k tasks, up to the wait for the
\* registration: lines 570-583
submitTasks(k, rddMem) ==
  /\ ~submitting
  /\ nextJobId < MaxJobs
  /\ submitted + k <= MaxTotal
  /\ IF k = 0
     THEN UNCHANGED <<started, isRegistered, activeJobs, activeJobsQueue,
                      taskIdToJobId, taskIdToSlaveId, jobTasks, slaveTasks,
                      slaveFailed, jobs, nextJobId, submitting,
                      lost, failedReports>>
     ELSE /\ nextJobId' = nextJobId + 1
          /\ jobs' = Put(jobs, nextJobId + 1,
                         SimpleJob(k, self_cpus,
                                   IF rddMem # None THEN rddMem ELSE self_mem))
          /\ activeJobs' = activeJobs \cup {nextJobId + 1}
          /\ activeJobsQueue' = Append(activeJobsQueue, nextJobId + 1)
          /\ jobTasks' = Put(jobTasks, nextJobId + 1, {})
          /\ started' = TRUE
          /\ submitting' = ~isRegistered
          /\ UNCHANGED <<isRegistered, taskIdToJobId, taskIdToSlaveId,
                         slaveTasks, slaveFailed, lost,
                         failedReports>>
  /\ UNCHANGED dagVars

\* the wait of lines 584-587 ends
submitTasksReturn ==
  /\ submitting
  /\ isRegistered
  /\ submitting' = FALSE
  /\ UNCHANGED <<started, isRegistered, activeJobs, activeJobsQueue,
                 taskIdToJobId, taskIdToSlaveId, jobTasks, slaveTasks,
                 slaveFailed, jobs, nextJobId, lost,
                 failedReports>>
  /\ UNCHANGED dagVars

\* MesosScheduler.registered: lines 528-534
registered ==
  /\ started
  /\ ~isRegistered
  /\ isRegistered' = TRUE
  /\ UNCHANGED <<started, activeJobs, activeJobsQueue,
                 taskIdToJobId, taskIdToSlaveId, jobTasks, slaveTasks,
                 slaveFailed, jobs, nextJobId, submitting,
                 lost, failedReports>>
  /\ UNCHANGED dagVars

(***************************************************************************)
(* resourceOffers.  The loops of lines 616-646 thread the record           *)
(*   P = [jobs, jobTasks, taskIdToJobId, taskIdToSlaveId, slaveTasks,      *)
(*        cpus, mems, tasks, launchedTask, placed]                         *)
(* where cpus, mems and tasks are indexed like the offers and placed is    *)
(* the log of the placements of this call.  random.shuffle (line 606)  *)
(* is covered by the broker making its offers in any order.                *)
(***************************************************************************)
MinOf(a, b) == IF a < b THEN a ELSE b

\* a variant of lines 632-643 that leaves mems[i] as it is
placeKeepingMem(P, jid, offers, i, t) ==
  [P EXCEPT
     !.tasks[i] = Append(@, <<jid, t[1], t[2]>>),
     !.jobTasks[jid] = @ \cup {<<jid, t[1], t[2]>>},
     !.taskIdToJobId = Put(@, <<jid, t[1], t[2]>>, jid),
     !.taskIdToSlaveId = Put(@, <<jid, t[1], t[2]>>, offers[i].slave),
     !.slaveTasks = Put(@, offers[i].slave, Get(@, offers[i].slave, 0) + 1),
     !.cpus[i] = @ - MinOf(@, P.jobs[jid].cpus),
     !.launchedTask = TRUE,
     !.jobs[jid].todo = @ \ {t},
     !.placed = Append(@, [offer |-> i, slave |-> offers[i].slave,
                           job |-> jid, tid |-> <<jid, t[1], t[2]>>])]

\* lines 632-643: task t of job jid goes to offer i
place(P, jid, offers, i, t) ==
  [P EXCEPT
     !.tasks[i] = Append(@, <<jid, t[1], t[2]>>),
     !.jobTasks[jid] = @ \cup {<<jid, t[1], t[2]>>},
     !.taskIdToJobId = Put(@, <<jid, t[1], t[2]>>, jid),
     !.taskIdToSlaveId = Put(@, <<jid, t[1], t[2]>>, offers[i].slave),
     !.slaveTasks = Put(@, offers[i].slave, Get(@, offers[i].slave, 0) + 1),
     !.cpus[i] = @ - MinOf(@, P.jobs[jid].cpus),
     !.mems[i] = @ - P.jobs[jid].mem,
     !.launchedTask = TRUE,
     !.jobs[jid].todo = @ \ {t},
     !.placed = Append(@, [offer |-> i, slave |-> offers[i].slave,
                           job |-> jid, tid |-> <<jid, t[1], t[2]>>])]

\* lines 629-631
placeIfTask(P, jid, offers, i, t) ==
  IF t = NoTask THEN P ELSE place(P, jid, offers, i, t)

\* a variant of lines 620-643 without the test of line 625
tryOfferNoCap(P, jid, offers, i) ==
  IF group # {} /\ offers[i].attr \notin group
  THEN P
  ELSE IF Get(slaveFailed, offers[i].slave, 0) >= MAX_FAILED
  THEN P
  ELSE IF P.mems[i] < self_mem \/ P.cpus[i] + Epsilon < self_cpus
  THEN P
  ELSE placeIfTask(P, jid, offers, i,
                   slaveOffer(P.jobs[jid], P.cpus[i], P.mems[i]))

\* lines 620-643: the body of the loop over the offers
tryOffer(P, jid, offers, i) ==
  IF group # {} /\ offers[i].attr \notin group
  THEN P
  ELSE IF Get(slaveFailed, offers[i].slave, 0) >= MAX_FAILED
  THEN P
  ELSE IF Get(P.slaveTasks, offers[i].slave, 0) >= task_per_node
  THEN P
  ELSE IF P.mems[i] < self_mem \/ P.cpus[i] + Epsilon < self_cpus
  THEN P
  ELSE placeIfTask(P, jid, offers, i,
                   slaveOffer(P.jobs[jid], P.cpus[i], P.mems[i]))

RECURSIVE offerPass(_, _, _, _)
\* lines 619-643: for i, o in enumerate(offers)
offerPass(P, jid, offers, i) ==
  IF i > Len(offers)
  THEN P
  ELSE offerPass(tryOffer(P, jid, offers, i), jid, offers, i + 1)

RECURSIVE jobLoop(_, _, _)
\* lines 645-646
againIfLaunched(P, jid, offers) ==
  IF P.launchedTask THEN jobLoop(P, jid, offers) ELSE P

\* lines 617-646: while True
jobLoop(P, jid, offers) ==
  againIfLaunched(offerPass([P EXCEPT !.launchedTask = FALSE], jid, offers, 1),
                  jid, offers)

RECURSIVE allJobs(_, _, _, _)
\* lines 616-646: for job in self.activeJobsQueue
allJobs(P, queue, k, offers) ==
  IF k > Len(queue)
  THEN P
  ELSE allJobs(jobLoop(P, queue[k], offers), queue, k + 1, offers)

\* the slaves that tasks tracked in taskIdToSlaveId were launched on
tracked == {taskIdToSlaveId[t] : t \in DOMAIN taskIdToSlaveId}

\* line 609: the executor's memory is taken off
deducts(o) == o.slave \notin DOMAIN slaveTasks

\* lines 607-611
cpusOf(offers) == [i \in DOMAIN offers |-> offers[i].cpus]
memsOf(offers) ==
  [i \in DOMAIN offers |->
     offers[i].mem - (IF deducts(offers[i]) THEN EXECUTOR_MEMORY ELSE 0)]

\* lines 605-646
matchOffers(offers) ==
  allJobs([jobs |-> jobs, jobTasks |-> jobTasks,
           taskIdToJobId |-> taskIdToJobId,
           taskIdToSlaveId |-> taskIdToSlaveId, slaveTasks |-> slaveTasks,
           cpus |-> cpusOf(offers), mems |-> memsOf(offers),
           tasks |-> [i \in DOMAIN offers |-> <<>>],
           launchedTask |-> FALSE, placed |-> <<>>],
          activeJobsQueue, 1, offers)

\* a variant of lines 652-654 that looks the tasks up by slave, not by offer
launchTasksBySlave(offers) ==
  IF activeJobs = {}
  THEN [i \in DOMAIN offers |-> [tasks |-> <<>>, refuse_seconds |-> 300]]
  ELSE [i \in DOMAIN offers |->
          [tasks |-> matchOffers(offers).tasks[
                       Min({k \in DOMAIN offers :
                              offers[k].slave = offers[i].slave})],
           refuse_seconds |-> 5]]

\* the launchTasks calls of resourceOffers, one for each offer: lines
\* 600-603 without active jobs, else lines 652-654
launchTasks(offers) ==
  IF activeJobs = {}
  THEN [i \in DOMAIN offers |-> [tasks |-> <<>>, refuse_seconds |-> 300]]
  ELSE [i \in DOMAIN offers |->
          [tasks |-> matchOffers(offers).tasks[i], refuse_seconds |-> 5]]

\* a variant in which line 639 is missing: the task ids placed are not
\* entered in taskIdToSlaveId
SetMatchedWithoutSlaveIds(P) ==
  /\ jobs' = P.jobs
  /\ jobTasks' = P.jobTasks
  /\ taskIdToJobId' = P.taskIdToJobId
  /\ taskIdToSlaveId' = taskIdToSlaveId
  /\ slaveTasks' = P.slaveTasks

\* the loops of lines 616-646 have ended with P
SetMatched(P) ==
  /\ jobs' = P.jobs
  /\ jobTasks' = P.jobTasks
  /\ taskIdToJobId' = P.taskIdToJobId
  /\ taskIdToSlaveId' = P.taskIdToSlaveId
  /\ slaveTasks' = P.slaveTasks

\* MesosScheduler.resourceOffers: lines 596-657
resourceOffers(offers) ==
  /\ started /\ isRegistered
  /\ IF activeJobs = {}
     THEN UNCHANGED <<jobs, jobTasks, taskIdToJobId, taskIdToSlaveId,
                      slaveTasks>>
     ELSE SetMatched(matchOffers(offers))
  /\ UNCHANGED <<started, isRegistered, activeJobs, activeJobsQueue,
                 slaveFailed, nextJobId, submitting, lost, failedReports>>
  /\ UNCHANGED dagVars

\* a variant of lines 714-746 without line 719: the task id stays in
\* taskIdToSlaveId
terminalUpdateKeepingSlaveId(tid, jid, state) ==
  /\ taskIdToJobId' = Del(taskIdToJobId, tid)
  /\ jobTasks' = [jobTasks EXCEPT ![jid] = @ \ {tid}]
  /\ slaveTasks' = IF taskIdToSlaveId[tid] \in DOMAIN slaveTasks
                   THEN [slaveTasks EXCEPT ![taskIdToSlaveId[tid]] = @ - 1]
                   ELSE slaveTasks
  /\ taskIdToSlaveId' = taskIdToSlaveId
  /\ jobs' = [jobs EXCEPT ![jid] = jobStatusUpdate(@, <<tid[2], tid[3]>>, state)]
  /\ failedReports' =
       IF state \in {"TASK_FAILED", "TASK_LOST"}
       THEN [failedReports EXCEPT ![taskIdToSlaveId[tid]] =
                                     MinOf(@ + 1, MAX_FAILED)]
       ELSE failedReports
  /\ UNCHANGED slaveFailed

\* what a terminal status of task tid of job jid does: lines 714-746
terminalUpdate(tid, jid, state) ==
  /\ taskIdToJobId' = Del(taskIdToJobId, tid)
  /\ jobTasks' = [jobTasks EXCEPT ![jid] = @ \ {tid}]
  /\ slaveTasks' = IF taskIdToSlaveId[tid] \in DOMAIN slaveTasks
                   THEN [slaveTasks EXCEPT ![taskIdToSlaveId[tid]] = @ - 1]
                   ELSE slaveTasks
  /\ taskIdToSlaveId' = Del(taskIdToSlaveId, tid)
  /\ jobs' = [jobs EXCEPT ![jid] = jobStatusUpdate(@, <<tid[2], tid[3]>>, state)]
  /\ failedReports' =
       IF state \in {"TASK_FAILED", "TASK_LOST"}
       THEN [failedReports EXCEPT ![taskIdToSlaveId[tid]] =
                                     MinOf(@ + 1, MAX_FAILED)]
       ELSE failedReports
  /\ UNCHANGED slaveFailed    \* lines 747-748 are commented out

\* MesosScheduler.statusUpdate: lines 697-748.  The decoding of status.data
\* (lines 721-743) only chooses what the job is told.
statusUpdate(tid, state) ==
  /\ started /\ isRegistered
  /\ IF Get(taskIdToJobId, tid, None) \notin activeJobs
     THEN UNCHANGED <<taskIdToJobId, jobTasks, slaveTasks, taskIdToSlaveId,
                      jobs, failedReports, slaveFailed>>
     ELSE IF state = "TASK_RUNNING"
     THEN UNCHANGED <<taskIdToJobId, jobTasks, slaveTasks, taskIdToSlaveId,
                      jobs, failedReports, slaveFailed>>
     ELSE terminalUpdate(tid, taskIdToJobId[tid], state)
  /\ UNCHANGED <<started, isRegistered, activeJobs, activeJobsQueue,
                 nextJobId, submitting, lost>>
  /\ UNCHANGED dagVars

\* a variant of line 754 that takes the oldest job off the queue
RemoveOldest(q, x) == Tail(q)

\* self.activeJobsQueue.remove(job)
Remove(q, x) == SelectSeq(q, LAMBDA y : y # x)

\* a variant of lines 750-763 without lines 761-763: the counters of the
\* slaves stay when the last job has finished
jobFinishedKeepingCounters(jid) ==
  /\ jid \in DOMAIN jobs
  /\ IF jid \in activeJobs
     THEN /\ activeJobs' = activeJobs \ {jid}
          /\ activeJobsQueue' = Remove(activeJobsQueue, jid)
          /\ taskIdToJobId' = [t \in DOMAIN taskIdToJobId \ jobTasks[jid]
                                 |-> taskIdToJobId[t]]
          /\ taskIdToSlaveId' = [t \in DOMAIN taskIdToSlaveId \ jobTasks[jid]
                                   |-> taskIdToSlaveId[t]]
          /\ jobTasks' = Del(jobTasks, jid)
          /\ UNCHANGED <<slaveTasks, slaveFailed, failedReports>>
     ELSE UNCHANGED <<activeJobs, activeJobsQueue, taskIdToJobId,
                      taskIdToSlaveId, jobTasks, slaveTasks, slaveFailed,
                      failedReports>>
  /\ UNCHANGED <<started, isRegistered, jobs, nextJobId, submitting,
                 lost>>
  /\ UNCHANGED dagVars

\* MesosScheduler.jobFinished: lines 750-763
jobFinished(jid) ==
  /\ jid \in DOMAIN jobs
  /\ IF jid \in activeJobs
     THEN /\ activeJobs' = activeJobs \ {jid}
          /\ activeJobsQueue' = Remove(activeJobsQueue, jid)
          /\ taskIdToJobId' = [t \in DOMAIN taskIdToJobId \ jobTasks[jid]
                                 |-> taskIdToJobId[t]]
          /\ taskIdToSlaveId' = [t \in DOMAIN taskIdToSlaveId \ jobTasks[jid]
                                   |-> taskIdToSlaveId[t]]
          /\ jobTasks' = Del(jobTasks, jid)
          /\ IF activeJobs \ {jid} = {}
             THEN /\ slaveTasks' = Empty
                  /\ slaveFailed' = Empty
                  /\ failedReports' = [s \in Slaves |-> 0]
             ELSE UNCHANGED <<slaveTasks, slaveFailed, failedReports>>
     ELSE UNCHANGED <<activeJobs, activeJobsQueue, taskIdToJobId,
                      taskIdToSlaveId, jobTasks, slaveTasks, slaveFailed,
                      failedReports>>
  /\ UNCHANGED <<started, isRegistered, jobs, nextJobId, submitting,
                 lost>>
  /\ UNCHANGED dagVars

\* MesosScheduler.clear: lines 471-473.  DAGScheduler.clear empties the maps
\* of the DAG driver, which this process has not filled, and init_job makes
\* new, empty bookkeeping maps.  The job objects live on: a status update is
\* ignored for them and jobFinished finds them inactive.
init_job ==
  /\ started /\ isRegistered
  /\ activeJobs' = {}
  /\ activeJobsQueue' = <<>>
  /\ taskIdToJobId' = Empty
  /\ taskIdToSlaveId' = Empty
  /\ jobTasks' = Empty
  /\ slaveTasks' = Empty
  /\ slaveFailed' = Empty
  /\ failedReports' = [s \in Slaves |-> 0]
  /\ UNCHANGED <<started, isRegistered, jobs, nextJobId, submitting, lost>>
  /\ UNCHANGED dagVars

\* MesosScheduler.executorLost: lines 800-802.  del raises KeyError for a
\* slave without an entry and nothing changes.
executorLost(slave) ==
  /\ started /\ isRegistered
  /\ lost < MaxLost
  /\ lost' = lost + 1
  /\ slaveTasks' = IF slave \in DOMAIN slaveTasks
                   THEN Del(slaveTasks, slave) ELSE slaveTasks
  /\ UNCHANGED <<started, isRegistered, activeJobs, activeJobsQueue,
                 taskIdToJobId, taskIdToSlaveId, jobTasks, slaveFailed, jobs,
                 nextJobId, submitting, failedReports>>
  /\ UNCHANGED dagVars

\* MesosScheduler.slaveLost: lines 804-807
slaveLost(slave) ==
  /\ started /\ isRegistered
  /\ lost < MaxLost
  /\ lost' = lost + 1
  /\ slaveTasks' = Del(slaveTasks, slave)
  /\ slaveFailed' = Put(slaveFailed, slave, MAX_FAILED)
  /\ UNCHANGED <<started, isRegistered, activeJobs, activeJobsQueue,
                 taskIdToJobId, taskIdToSlaveId, jobTasks, jobs,
                 nextJobId, submitting, failedReports>>
  /\ UNCHANGED dagVars

(***************************************************************************)
(* The threads of the MesosScheduler's process.  A method decorated with   *)
(* @safe runs its body between the acquisition and the release of          *)
(* self.lock (lines 429-434); the other methods run their body at once.    *)
(* offerRescinded, check and error are @safe and write none of the fields. *)
(***************************************************************************)
sameCluster == UNCHANGED <<dagVars, mesosVars, dropped>>

\* line 431: thread t enters the @safe method name
acquire(t, name) ==
  /\ lock = "free"
  /\ op[t] = "idle"
  /\ lock' = t
  /\ op' = [op EXCEPT ![t] = name]
  /\ UNCHANGED <<watchdog, idle>>
  /\ sameCluster

\* lines 432-433: the body of the @safe method runs and the lock is released
release(t, name) ==
  /\ lock = t
  /\ op[t] = name
  /\ lock' = "free"
  /\ op' = [op EXCEPT ![t] = "idle"]
  /\ UNCHANGED dropped

\* a method without @safe runs on thread t
unlocked(t) ==
  /\ op[t] = "idle"
  /\ UNCHANGED <<lock, op, dropped>>

\* the number of the next check thread
nextWatchdog == Min({w \in DOMAIN watchdog : watchdog[w] = "none"})

\* submitTasks with the lock: lines 570-587.  start_driver (lines 498-510)
\* notes the time and spawns a check thread; the lock is released for the
\* sleep of line 586 or at the return.
lockedSubmitTasks(k) ==
  /\ lock = "caller"
  /\ op["caller"] = "submitTasks"
  /\ submitTasks(k, None)
  /\ lock' = "free"
  /\ op' = [op EXCEPT !["caller"] =
              IF k = 0 \/ isRegistered THEN "idle" ELSE "submitTasks"]
  /\ IF k # 0 /\ ~started
     THEN /\ watchdog' = [watchdog EXCEPT ![nextWatchdog] = "loop"]
          /\ idle' = 0
     ELSE UNCHANGED <<watchdog, idle>>
  /\ UNCHANGED dropped

\* lines 584-590: the registration has been seen after a sleep
lockedSubmitTasksReturn ==
  /\ lock = "free"
  /\ op["caller"] = "submitTasks"
  /\ submitTasksReturn
  /\ op' = [op EXCEPT !["caller"] = "idle"]
  /\ UNCHANGED <<lock, watchdog, idle, dropped>>

\* jobFinished, called by the job from statusUpdate: line 759 notes the time
lockedJobFinished(jid) ==
  /\ release("broker", "statusUpdate")
  /\ jobFinished(jid)
  /\ idle' = IF jid \in activeJobs THEN 0 ELSE idle
  /\ UNCHANGED watchdog

\* time passes
tick ==
  /\ started
  /\ idle <= MAX_IDLE_TIME
  /\ idle' = idle + 1
  /\ UNCHANGED <<lock, op, watchdog>>
  /\ sameCluster

\* one round of check: lines 501-508, up to the call of stop
watchdogCheck(w) ==
  /\ watchdog[w] = "loop"
  /\ watchdog' = [watchdog EXCEPT ![w] =
                    IF ~started THEN "ended"
                    ELSE IF activeJobs = {} /\ idle > MAX_IDLE_TIME
                    THEN "stopping"
                    ELSE "loop"]
  /\ UNCHANGED <<lock, op, idle>>
  /\ sameCluster

\* MesosScheduler.stop: lines 777-785 (@safe is commented out), called by
\* the check thread w at line 506
stop(w) ==
  /\ watchdog[w] = "stopping"
  /\ watchdog' = [watchdog EXCEPT ![w] = "ended"]
  /\ started' = FALSE
  /\ isRegistered' = IF started THEN FALSE ELSE isRegistered
  /\ UNCHANGED <<activeJobs, activeJobsQueue, taskIdToJobId, taskIdToSlaveId,
                 jobTasks, slaveTasks, slaveFailed, jobs, nextJobId,
                 submitting, lost, failedReports>>
  /\ UNCHANGED <<lock, op, idle, dropped>>
  /\ UNCHANGED dagVars

Reasons == {"Success", "FetchFailed", "OtherFailure"}

\* One call of runJob in a fresh process, and the cluster layer.
Next ==
  \/ /\ \E n \in 0..len(G.final), local \in BOOLEAN : runs = 0 /\ runJob(n, local)
     /\ UNCHANGED otherVars
  \/ /\ \E task \in inflight, reason \in Reasons, host \in Hosts :
             TaskEnd(task, reason, host)
     /\ UNCHANGED otherVars
  \/ /\ HandleEvent
     /\ UNCHANGED otherVars
  \/ /\ EmptyPoll
     /\ UNCHANGED otherVars
  \/ /\ shutdown
     /\ UNCHANGED otherVars

Spec == Init /\ [][Next]_vars

\* Up to MaxRuns calls of runJob, one after the other, in one process.
NextRuns ==
  \/ /\ \E n \in 0..len(G.final), local \in BOOLEAN : runJob(n, local)
     /\ UNCHANGED otherVars
  \/ /\ \E task \in inflight, reason \in Reasons, host \in Hosts :
             TaskEnd(task, reason, host)
     /\ UNCHANGED otherVars
  \/ /\ HandleEvent
     /\ UNCHANGED otherVars
  \/ /\ EmptyPoll
     /\ UNCHANGED otherVars
  \/ /\ \E s \in DOMAIN stages : Collect(s)
     /\ UNCHANGED otherVars
  \/ /\ clear
     /\ UNCHANGED threadVars

SpecRuns == Init /\ [][NextRuns]_vars

\* The cluster scheduler of a process whose DAG driver is not looked at.
NextMesos ==
  \/ /\ \E k \in {0, 1, MaxTasks}, rddMem \in RddMems : submitTasks(k, rddMem)
     /\ UNCHANGED otherVars
  \/ /\ submitTasksReturn
     /\ UNCHANGED otherVars
  \/ /\ registered
     /\ UNCHANGED otherVars
  \/ /\ \E offers \in OfferLists : resourceOffers(offers)
     /\ UNCHANGED otherVars
  \/ /\ \E tid \in TaskIds, state \in TaskStates : statusUpdate(tid, state)
     /\ UNCHANGED otherVars
  \/ /\ \E jid \in DOMAIN jobs : jobFinished(jid)
     /\ UNCHANGED otherVars
  \/ /\ \E slave \in Slaves : executorLost(slave)
     /\ UNCHANGED otherVars
  \/ /\ \E slave \in Slaves : slaveLost(slave)
     /\ UNCHANGED otherVars
  \/ /\ init_job
     /\ UNCHANGED otherVars

InitMesosOnly == Init /\ graph = 1 /\ keep_order

SpecMesos == InitMesosOnly /\ [][NextMesos]_vars

\* the offer of the broker in the process with its threads
oneOffer == <<Offer("s1", 20000, 264)>>

\* The MesosScheduler with the caller's thread, the thread of the broker's
\* callbacks and the check threads.
NextThreads ==
  \/ acquire("caller", "submitTasks")
  \/ \E k \in {0, 1} : lockedSubmitTasks(k)
  \/ lockedSubmitTasksReturn
  \/ \E name \in {"registered", "resourceOffers", "statusUpdate"} :
       acquire("broker", name)
  \/ /\ release("broker", "registered")
     /\ registered
     /\ UNCHANGED <<watchdog, idle>>
  \/ /\ release("broker", "resourceOffers")
     /\ resourceOffers(oneOffer)
     /\ UNCHANGED <<watchdog, idle>>
  \/ /\ release("broker", "statusUpdate")
     /\ \E tid \in TaskIds, state \in TaskStates : statusUpdate(tid, state)
     /\ UNCHANGED <<watchdog, idle>>
  \/ \E jid \in DOMAIN jobs : lockedJobFinished(jid)
  \/ /\ unlocked("broker")
     /\ \E slave \in Slaves : executorLost(slave)
     /\ UNCHANGED <<watchdog, idle>>
  \/ /\ unlocked("broker")
     /\ \E slave \in Slaves : slaveLost(slave)
     /\ UNCHANGED <<watchdog, idle>>
  \/ /\ unlocked("caller")
     /\ init_job
     /\ UNCHANGED <<watchdog, idle>>
  \/ tick
  \/ \E w \in DOMAIN watchdog : watchdogCheck(w)
  \/ \E w \in DOMAIN watchdog : stop(w)

SpecThreads == InitMesosOnly /\ [][NextThreads]_vars

(***************************************************************************)
(* Properties of runJob.                                                   *)
(***************************************************************************)
Prefix(s, t) == Len(s) <= Len(t) /\ \A i \in 1..Len(s) : s[i] = t[i]

\* the results of output index 0, 1, ..., n-1 in that order
inOrder(n) == [i \in 1..n |-> resultOf(i)]

\* the run went through the polling loop (it did not take the local path)
viaLoop == nSubmit > 0 \/ polled

\* C1: with keep_order set the yielded sequence is at every moment the
\* results of output 0, 1, ... up to the last one yielded, in that order,
\* whatever the order of the Success events; a run that ends has yielded all
\* n of them, each once, and has no result left buffered, so the assert of
\* line 334 does not fail.
C1_KeepOrderYieldsInPartitionOrder ==
  keep_order =>
    /\ Prefix(yielded, inOrder(numOutputParts))
    /\ viaLoop => Len(yielded) = lastFinished
    /\ pc = "done" => yielded = inOrder(numOutputParts) /\ ~anyResults(results)
    /\ error # "AssertionError"

\* a run with keep_order has ended after the Success events arrived in an
\* order that is not the partition order
C1_Witness ==
  /\ keep_order
  /\ pc = "done"
  /\ numOutputParts = MaxParts
  /\ Len(endedLog) = MaxParts
  /\ endedLog # inOrder(MaxParts)
  /\ yielded = inOrder(MaxParts)

\* C2: without keep_order every consumed Success event of a result task
\* yields its result in the same step, so the yielded sequence is a prefix of
\* the sequence in which taskEnded reported the result tasks, with as many
\* yields as result tasks consumed, and a run that ends has yielded every
\* output exactly once.
C2_ArrivalOrderYields ==
  (~keep_order /\ viaLoop) =>
    /\ Prefix(yielded, endedLog)
    /\ Len(yielded) = numFinished
    /\ \A i, j \in 1..Len(yielded) : yielded[i] = yielded[j] => i = j
    /\ pc = "done" => /\ yielded = endedLog
                      /\ {yielded[i] : i \in 1..Len(yielded)}
                           = {resultOf(i) : i \in 1..numOutputParts}

\* a run without keep_order has ended after the Success events arrived in an
\* order that is not the partition order
C2_Witness ==
  /\ ~keep_order
  /\ pc = "done"
  /\ polled
  /\ numOutputParts = MaxParts
  /\ yielded = endedLog
  /\ yielded # inOrder(MaxParts)

\* C3: every run ends.  As long as tasks have yet to report, events are
\* queued or failed stages await resubmission the loop has something to wait
\* for; the run stays in the loop forever exactly if it is polling with none
\* of these left (an empty poll then changes nothing), so a run that always
\* ends never reaches such a state.
C3_EveryRunEnds ==
  (pc = "loop" /\ ~shutdownFlag) =>
    (inflight # {} \/ completionEvents # <<>> \/ failed # {})

\* the event at the head of the queue is consumed by this step
consumed ==
  /\ pc = "loop"
  /\ completionEvents # <<>>
  /\ completionEvents' = Tail(completionEvents)

\* the consumed event reports OtherFailure for a task of a stage in the
\* pending map of the run
otherFailureOfPendingStage ==
  /\ consumed
  /\ Head(completionEvents).reason = "OtherFailure"
  /\ Head(completionEvents).task.stageId \in DOMAIN pendingTasks

\* the run has ended: it yields nothing and submits nothing in this step
runStaysOver ==
  (pc \in {"done", "raised", "exit"} /\ runs' = runs) =>
    /\ pc' = pc /\ error' = error
    /\ yielded' = yielded /\ nSubmit' = nSubmit /\ inflight' \subseteq inflight

\* C4: consuming an OtherFailure event for a task of a stage in the pending
\* map raises that failure to the caller in the same step, without a yield
\* and without a submission, and the run stays over.
C4_OtherFailureRaised ==
  [][/\ otherFailureOfPendingStage =>
          /\ pc' = "raised" /\ error' = "OtherFailure"
          /\ yielded' = yielded /\ nSubmit' = nSubmit /\ inflight' = inflight
     /\ runStaysOver]_vars

\* What does hold: the failure is raised when the task is in the pending set
\* of its stage; for any other task of such a stage line 294 raises KeyError
\* before the reason is looked at.  Either way the run is over.
C4_RaisedOrKeyError ==
  [][/\ otherFailureOfPendingStage =>
          /\ pc' = "raised"
          /\ error' = IF Head(completionEvents).task.id
                           \in pendingTasks[Head(completionEvents).task.stageId]
                      THEN "OtherFailure" ELSE "KeyError"
          /\ yielded' = yielded /\ nSubmit' = nSubmit /\ inflight' = inflight
     /\ runStaysOver]_vars

\* the final stage's missing parents as line 221 computes them
missingOfFinal == getMissingParentStages(Store, cacheLocs, finalStage).missing

\* this step is a call of runJob
called == runs' = runs + 1

\* C5: a call with allowLocal, one partition and a final stage without
\* parents or without missing parents yields the one result and ends in the
\* same step: nothing is submitted, no event is consumed, and waiting, running
\* and pending stay empty.
C5_LocalFastPath ==
  [][(/\ called
      /\ allowLocal'
      /\ numOutputParts' = 1
      /\ (stages'[finalStage'].parents = {} \/ missingOfFinal' = {}))
     => /\ pc' = "done"
        /\ yielded' = <<resultOf(1)>>
        /\ nSubmit' = 0 /\ created' = {} /\ inflight' = inflight
        /\ ~polled' /\ completionEvents' = completionEvents
        /\ waiting' = {} /\ running' = {} /\ pendingTasks' = <<>>]_vars

\* the local path was taken by a final stage that has parents, none missing
C5_Witness ==
  /\ allowLocal /\ numOutputParts = 1 /\ pc = "done" /\ ~polled
  /\ yielded = <<resultOf(1)>>
  /\ nSubmit = 0
  /\ finalStage \in DOMAIN stages
  /\ stages[finalStage].parents # {}

\* C6: a run over no partitions has ended when runJob returns: nothing is
\* yielded, the queue is never polled and no task of the final stage exists,
\* also when parent stages were missing and their tasks were submitted.
C6_EmptyPartitions ==
  (runs > 0 /\ numOutputParts = 0) =>
    /\ pc = "done"
    /\ yielded = <<>>
    /\ ~polled
    /\ \A t \in created : t.kind # "ResultTask" /\ t.stageId # finalStage

\* a run over no partitions whose final stage had missing parents
C6_Witness ==
  /\ runs > 0 /\ numOutputParts = 0 /\ pc = "done"
  /\ finalStage \in waiting
  /\ created # {}

(***************************************************************************)
(* Properties of the cluster scheduler.                                    *)
(***************************************************************************)
\* the Mesos task ids this step has placed
newTids == DOMAIN taskIdToSlaveId' \ DOMAIN taskIdToSlaveId

RECURSIVE sumTodo(_)
sumTodo(S) ==
  IF S = {} THEN 0
  ELSE Cardinality(jobs[Min(S)].todo) + sumTodo(S \ {Min(S)})

\* the tasks of the active jobs that wait for a launch
pendingTotal == sumTodo(activeJobs)

\* the Mesos task ids a call with these offers launches
launched(offers) ==
  DOMAIN matchOffers(offers).taskIdToSlaveId \ DOMAIN taskIdToSlaveId

\* one offer of this slave, large enough for every pending task
largeOffer(s) == <<Offer(s, 640000, 65536)>>

\* a call with one large offer places as many tasks as the counter of the
\* slave leaves room for
fillsTheSlave ==
  \A s \in Slaves :
    (/\ started /\ isRegistered /\ activeJobs # {}
     /\ Get(slaveFailed, s, 0) < MAX_FAILED)
    => Cardinality(launched(largeOffer(s)))
         = MinOf(pendingTotal, task_per_node - Get(slaveTasks, s, 0))

\* C7: every task resourceOffers places goes to a slave whose counter is at
\* most task_per_node afterwards and whose slaveFailed is below MAX_FAILED,
\* after any sequence of calls; a call with one large offer from such a
\* slave places as many tasks as the counter leaves room for, that is
\* task_per_node of them on a slave without tasks when more are pending.
C7_PerNodeCap ==
  /\ []fillsTheSlave
  /\ [][\A tid \in newTids :
          /\ slaveTasks'[taskIdToSlaveId'[tid]] <= task_per_node
          /\ Get(slaveFailed, taskIdToSlaveId'[tid], 0) < MAX_FAILED]_vars

\* C7 as the specification words its last part: with one large offer and
\* more pending tasks than task_per_node, exactly task_per_node tasks are
\* placed, whatever the slave's counter is.
C7_AlwaysTaskPerNode ==
  \A s \in Slaves :
    (/\ started /\ isRegistered /\ activeJobs # {}
     /\ pendingTotal > task_per_node)
    => Cardinality(launched(largeOffer(s))) = task_per_node

\* a slave holds task_per_node tasks, all of one job's first attempts, and a
\* task of that job is left waiting
C7_Witness ==
  \E s \in Slaves, j \in activeJobs :
    /\ Get(slaveTasks, s, 0) = task_per_node
    /\ Cardinality({t \in DOMAIN taskIdToSlaveId : taskIdToSlaveId[t] = s})
         = task_per_node
    /\ jobTasks[j] = DOMAIN taskIdToSlaveId
    /\ jobs[j].todo # {}
    /\ lost = 0
    /\ \A t \in jobs[j].todo : t[2] = 0

\* C8: no task is placed on a slave for which MAX_FAILED terminal failures
\* have been reported since the counters were last reset.
C8_FailedSlaveSkipped ==
  [][\A tid \in newTids : failedReports[taskIdToSlaveId'[tid]] < MAX_FAILED]_vars

RECURSIVE usedMem(_, _)
\* the memory of the first k tasks of the list a call launches on an offer
usedMem(T, k) ==
  IF k = 0 THEN 0 ELSE jobs[T[k][1]].mem + usedMem(T, k - 1)

RECURSIVE usedCpus(_, _)
usedCpus(T, k) ==
  IF k = 0 THEN 0 ELSE jobs[T[k][1]].cpus + usedCpus(T, k - 1)

\* every task of the list T of offer i found what its job needs, after the
\* tasks before it in T
eachTaskFits(offers, i, T) ==
  \A k \in DOMAIN T :
    /\ memsOf(offers)[i] - usedMem(T, k - 1) >= jobs[T[k][1]].mem
    /\ offers[i].cpus - usedCpus(T, k - 1) >= jobs[T[k][1]].cpus

\* no active job fits offer i as it arrives
fitsNoJob(offers, i) ==
  \A j \in activeJobs :
    memsOf(offers)[i] < jobs[j].mem \/ offers[i].cpus < jobs[j].cpus

callable == started /\ isRegistered /\ activeJobs # {}

deducted(offers) == {i \in DOMAIN offers : memsOf(offers)[i] # offers[i].mem}

\* C10: EXECUTOR_MEMORY is deducted only at a slave's first task launch: not
\* from an offer of a slave that already had a task launched (here one of
\* whose launched tasks the scheduler still tracks), and not from two
\* offers of one slave in one resourceOffers call.
C10_DeductedOnce ==
  [][\A offers \in OfferLists :
       (callable /\ resourceOffers(offers))
       => /\ \A i \in deducted(offers) : offers[i].slave \notin tracked
          /\ \A i, k \in deducted(offers) :
               offers[i].slave = offers[k].slave => i = k]_vars

\* the ids in a list of launched tasks
idsOf(T) == {T[k] : k \in DOMAIN T}

\* the answer to a batch of offers: one launchTasks call for each offer;
\* without active jobs an empty list and refuse_seconds 300, else
\* refuse_seconds 5 and the tasks this call has placed on the offer: all of
\* them new, on the offer's slave, paid for from the offer's cpus and mem,
\* none of them in two answers, and every task placed is in an answer
answeredBy(offers, P, L) ==
  /\ DOMAIN L = DOMAIN offers
  /\ \A i \in DOMAIN offers :
       IF activeJobs = {}
       THEN L[i] = [tasks |-> <<>>, refuse_seconds |-> 300]
       ELSE /\ L[i].refuse_seconds = 5
            /\ idsOf(L[i].tasks) \subseteq launched(offers)
            /\ Cardinality(idsOf(L[i].tasks)) = Len(L[i].tasks)
            /\ \A t \in idsOf(L[i].tasks) :
                 P.taskIdToSlaveId[t] = offers[i].slave
            /\ offers[i].cpus - P.cpus[i]
                 = usedCpus(L[i].tasks, Len(L[i].tasks))
            /\ memsOf(offers)[i] - P.mems[i]
                 = usedMem(L[i].tasks, Len(L[i].tasks))
            /\ \A k \in DOMAIN offers :
                 k # i => idsOf(L[i].tasks) \cap idsOf(L[k].tasks) = {}
  /\ activeJobs # {} =>
       UNION {idsOf(L[i].tasks) : i \in DOMAIN offers} = launched(offers)

answered(offers) ==
  answeredBy(offers, matchOffers(offers), launchTasks(offers))

\* C11: every offer of a resourceOffers call is answered by one launchTasks
\* call: without active jobs with an empty task list and refuse_seconds 300
\* and no change to a bookkeeping map, else with exactly the tasks placed on
\* that offer in this call and refuse_seconds 5.
C11_EveryOfferAnswered ==
  /\ [](started /\ isRegistered => \A offers \in OfferLists : answered(offers))
  /\ [][\A offers \in OfferLists :
          (activeJobs = {} /\ resourceOffers(offers))
          => UNCHANGED <<activeJobs, activeJobsQueue, taskIdToJobId,
                         taskIdToSlaveId, jobTasks, slaveTasks, slaveFailed,
                         jobs>>]_vars

\* tasks have been launched, and two offers of one slave would each be
\* answered with a task of their own
C11_Witness ==
  /\ callable
  /\ taskIdToSlaveId # Empty
  /\ LET L == launchTasks(<<Offer("s1", 20000, 264), Offer("s1", 20000, 264)>>)
     IN  /\ L[1].tasks # <<>> /\ L[2].tasks # <<>>
         /\ L[1].tasks # L[2].tasks

\* C12: the jobs in activeJobsQueue are the active jobs, none of them twice,
\* in the order of their submission (job ids are handed out in that order).
C12_QueueIsActiveJobs ==
  /\ {activeJobsQueue[i] : i \in DOMAIN activeJobsQueue} = activeJobs
  /\ \A i, k \in DOMAIN activeJobsQueue :
       i < k => activeJobsQueue[i] < activeJobsQueue[k]

\* the first of two jobs has finished while the second is active
C12_Witness ==
  /\ DOMAIN jobs = {1, 2}
  /\ activeJobs = {2}
  /\ activeJobsQueue = <<2>>
  /\ 2 \in DOMAIN jobTasks

\* the fields of the scheduler that the lock protects
protected == <<activeJobs, jobTasks, taskIdToJobId, taskIdToSlaveId,
               slaveTasks, slaveFailed, isRegistered, started>>

\* C13: every step that writes a field the lock protects is the body of a
\* @safe method of the thread that holds the lock (which releases it when
\* the body has run); no thread writes while the lock is free or while
\* another thread holds it.
C13_WritesHoldTheLock ==
  [][protected' # protected => (lock # "free" /\ lock' = "free")]_vars

\* C14: the framework is stopped only in a state without active jobs that
\* has been idle for more than MAX_IDLE_TIME, and once submitTasks has
\* returned a state with an active job has the driver started and
\* registered.
C14_NeverStoppedWithJob ==
  /\ []((activeJobs # {} /\ op["caller"] = "idle")
          => (started /\ isRegistered))
  /\ [][(started /\ ~started')
          => (activeJobs = {} /\ idle > MAX_IDLE_TIME)]_vars

(***************************************************************************)
(* Properties of the stage graph and of the scheduling loop.               *)
(***************************************************************************)
\* the stages this step has created
newStages == DOMAIN stages' \ DOMAIN stages

\* no two stages for one shuffle id, and every memoised stage is the stage
\* of its shuffle id
oneStagePerShuffle ==
  /\ \A a, b \in DOMAIN stages :
       (stages[a].shuffleDep # None
          /\ stages[a].shuffleDep = stages[b].shuffleDep) => a = b
  /\ \A x \in DOMAIN shuffleToMapStage :
       /\ shuffleToMapStage[x] \in DOMAIN stages
       /\ stages[shuffleToMapStage[x]].shuffleDep = x
  /\ \A a \in DOMAIN stages : a <= nextId

\* a step creates a stage for a shuffle id only if none is memoised for it,
\* and memoises it; a memoised stage stays until clear forgets them all;
\* the ids of new stages are above every id handed out before
stagesAreMemoised ==
  /\ \A a \in newStages :
       /\ a > nextId /\ a <= nextId'
       /\ stages'[a].shuffleDep # None =>
            /\ stages'[a].shuffleDep \notin DOMAIN shuffleToMapStage
            /\ shuffleToMapStage'[stages'[a].shuffleDep] = a
  /\ nextId' >= nextId
  /\ \A x \in DOMAIN shuffleToMapStage :
       \/ shuffleToMapStage' = <<>> /\ dropped' = dropped \cup DOMAIN shuffleToMapStage
       \/ x \in DOMAIN shuffleToMapStage'
            /\ shuffleToMapStage'[x] = shuffleToMapStage[x]

\* C15: between two clear calls at most one Stage is created for a shuffle
\* id and every lookup of the id resolves to it; stage ids are strictly
\* increasing and never reused, also across clear.
C15_OneStagePerShuffleUntilClear ==
  /\ []oneStagePerShuffle
  /\ [][stagesAreMemoised]_vars

\* C15 as the specification words it: no Stage is created for a shuffle id
\* for which one was created before, whatever calls came in between.
C15_OneStagePerShuffleEver ==
  [][\A a \in newStages :
       stages'[a].shuffleDep \notin (DOMAIN shuffleToMapStage \cup dropped)]_vars

\* a second run without a clear in between has looked up the memoised
\* stages and has only made its final stage
C15_Witness ==
  /\ runs = 2
  /\ dropped = {}
  /\ shuffleToMapStage # <<>>
  /\ nextId = Cardinality(DOMAIN shuffleToMapStage) + 2
  /\ finalStage = nextId

\* the stages reachable from the final stage over Stage.parents
reachable == closure(stages, {finalStage})

\* every partition of the stage has an output location
hasOutputs(s) ==
  \A p \in DOMAIN stages[s].outputLocs : stages[s].outputLocs[p] # <<>>

\* the stage is in neither set, none of its tasks is pending and, for a
\* shuffle-map stage, all its outputs are there
done(s) ==
  /\ s \notin waiting \cup running
  /\ s \in DOMAIN pendingTasks => pendingTasks[s] = {}
  /\ s # finalStage
  /\ hasOutputs(s)

\* C16: while the loop of a run waits for the next completion event,
\* waiting and running are disjoint, both hold only stages reachable from
\* the final stage, and every reachable stage is waiting, running or done:
\* no reachable stage that lacks outputs is outside waiting and running.
C16_WaitingRunningOrDone ==
  pc = "loop" =>
    /\ waiting \cap running = {}
    /\ waiting \cup running \subseteq reachable
    /\ \A s \in reachable : s \in waiting \/ s \in running \/ done(s)

C16_Witness ==
  /\ pc = "loop"
  /\ waiting # {}
  /\ running # {}
  /\ \E s \in reachable : done(s) /\ s \in DOMAIN pendingTasks

RECURSIVE shufflesBehind(_, _)
\* the shuffle ids a dataset r reaches over narrow dependencies without
\* passing a dataset of which locs has every partition cached
shufflesBehind(locs, r) ==
  IF r \in G.shouldCache /\ allCacheLocs(locs, r)
  THEN {}
  ELSE UNION {IF G.dependencies[r][i].shuffle
              THEN {G.dependencies[r][i].shuffleId}
              ELSE shufflesBehind(locs, G.dependencies[r][i].rdd)
              : i \in DOMAIN G.dependencies[r]}

\* every such shuffle has a stage with an output location for every
\* partition
parentsComplete(s) ==
  \A k \in shufflesBehind(cacheLocs, stages[s].rdd) :
    /\ k \in DOMAIN shuffleToMapStage
    /\ hasOutputs(shuffleToMapStage[k])

\* the tasks created by this step
newTasks == created' \ created

\* C17: while the loop of a run waits for an event, every running stage has
\* all its parent stages complete and every waiting stage has one that is
\* not; and a step creates and submits tasks only for stages that have all
\* parent stages complete and are running after the step, result tasks
\* included.
C17_SubmittedOnlyWithoutMissingParents ==
  /\ [](pc = "loop" =>
          /\ \A s \in running : parentsComplete(s)
          /\ \A s \in waiting : ~parentsComplete(s))
  /\ [][\A t \in newTasks :
          /\ parentsComplete(t.stageId)'
          /\ t.stageId \in running' \ waiting'
          /\ t \in inflight']_vars

C17_Witness ==
  /\ pc = "loop"
  /\ \E t \in created :
       /\ t.kind = "ResultTask"
       /\ shufflesBehind(cacheLocs, t.rdd) # {}
       /\ parentsComplete(t.stageId)
  /\ registeredOutputs # <<>>

\* this step takes the last task out of the pending set of the shuffle-map
\* stage s, and the task has not reported a failure that ends the run
emptied(s) ==
  /\ runs' = runs
  /\ error' # "OtherFailure"
  /\ s # finalStage
  /\ s \in DOMAIN pendingTasks /\ s \in DOMAIN pendingTasks'
  /\ pendingTasks[s] # {}
  /\ pendingTasks'[s] = {}

\* the registerMapOutputs calls of this run for the shuffle id k
registrations(log, k) == {i \in DOMAIN log : log[i].shuffleId = k}

\* the step lets s leave running and registers its outputs, the first host
\* of every partition, as the only registration of its shuffle id
leavesAndRegisters(s) ==
  /\ s \notin running'
  /\ hasOutputs(s)'
  /\ registeredOutputs' =
       Append(registeredOutputs,
              [shuffleId |-> stages'[s].shuffleDep,
               locs |-> [p \in DOMAIN stages'[s].outputLocs |->
                           Head(stages'[s].outputLocs[p])]])
  /\ Cardinality(registrations(registeredOutputs', stages'[s].shuffleDep)) = 1

\* the step moves exactly the waiting stages whose parents are now complete
\* to running and creates tasks for each of them
wakesTheRunnable ==
  \A w \in waiting :
    IF parentsComplete(w)'
    THEN /\ w \in running' \ waiting'
         /\ \E t \in newTasks : t.stageId = w
    ELSE /\ w \in waiting' \ running'
         /\ ~\E t \in newTasks : t.stageId = w

\* C18: a step that empties the pending set of a shuffle-map stage lets the
\* stage leave running, registers its map outputs once, with the first host
\* of every partition, and moves exactly the waiting stages without missing
\* parents to running, submitting their tasks.
C18_EmptyPendingCompletesStage ==
  [][\A s \in DOMAIN stages :
       emptied(s) => (leavesAndRegisters(s) /\ wakesTheRunnable)]_vars

\* the same for a step that empties the pending set by a Success when every
\* partition of the stage has an output by then
C18_LastSuccessCompletesStage ==
  [][\A s \in DOMAIN stages :
       (/\ emptied(s)
        /\ stages'[s].outputLocs # stages[s].outputLocs
        /\ hasOutputs(s)')
       => (leavesAndRegisters(s) /\ wakesTheRunnable)]_vars

\* this step is an iteration of the loop that dequeues an event
dequeues ==
  /\ pc = "loop"
  /\ completionEvents # <<>>
  /\ completionEvents' = Tail(completionEvents)

\* the event at the head of the queue is of a stage this run has no pending
\* set for
leftover == Head(completionEvents).task.stageId \notin DOMAIN pendingTasks

\* the step raises nothing and leaves the run and the stages as they were
discarded ==
  /\ pc' = pc /\ error' = error
  /\ UNCHANGED <<finished, results, waiting, running, failed, pendingTasks>>
  /\ UNCHANGED <<stages, yielded, created, nSubmit, registeredOutputs>>

\* C19: an iteration that dequeues an event of a stage that is not in the
\* pending map of the run raises nothing and changes neither finished,
\* results, waiting, running, pending nor any output location.
C19_LeftoverDiscarded ==
  [][(dequeues /\ leftover) => discarded]_vars

\* the same for an event whose stage is still in idToStage
C19_LiveLeftoverDiscarded ==
  [][(/\ dequeues
      /\ leftover
      /\ Head(completionEvents).task.stageId \in idToStage) => discarded]_vars

\* the event at the head of the queue is a FetchFailed of a task that is in
\* the pending set of its stage in this run
fetchFailedOfPending ==
  LET evt == Head(completionEvents)
  IN /\ evt.reason = "FetchFailed"
     /\ evt.task.stageId \in idToStage
     /\ evt.task.stageId \in DOMAIN pendingTasks
     /\ evt.task.id \in pendingTasks[evt.task.stageId]

\* the step raises nothing, submits nothing and leaves waiting, running,
\* failed, finished, the results and every output location as they were
nothingButPending ==
  /\ pc' = pc /\ error' = error
  /\ UNCHANGED <<waiting, running, failed, finished, results, numFinished>>
  /\ UNCHANGED <<stages, yielded, created, nSubmit, inflight,
                 registeredOutputs>>

\* the pending sets after the task of the event at the head has left its own
withoutTheTask ==
  LET task == Head(completionEvents).task
  IN [pendingTasks EXCEPT ![task.stageId] = @ \ {task.id}]

\* the failed set is empty throughout, and an iteration on an empty queue
\* creates and submits nothing
neverResubmits ==
  /\ [](failed = {})
  /\ [][(pc = "loop" /\ completionEvents = <<>>)
        => (created' = created /\ nSubmit' = nSubmit)]_vars

\* C20 as amended: consuming a FetchFailed event of a pending task takes the
\* task id out of the pending set of its stage and does nothing else: nothing
\* is raised or submitted, and waiting, running, failed, finished and every
\* outputLocs stay as they were; failed is empty in every state, so the
\* resubmission branch is never taken.
C20_FetchFailedOnlyLeavesPending ==
  /\ [][(dequeues /\ fetchFailedOfPending)
        => (nothingButPending /\ pendingTasks' = withoutTheTask)]_vars
  /\ neverResubmits

\* C20 as stated: consuming a FetchFailed event leaves pending unchanged as
\* well.
C20_FetchFailedChangesNothing ==
  /\ [][(dequeues /\ fetchFailedOfPending)
        => (nothingButPending /\ UNCHANGED pendingTasks)]_vars
  /\ neverResubmits

C20_Witness ==
  /\ pc = "loop"
  /\ failures > 0
  /\ failed = {}
  /\ polled
  /\ \E t \in created \ inflight :
       /\ t.id \notin pendingTasks[t.stageId]
       /\ \A i \in DOMAIN completionEvents : completionEvents[i].task # t
       /\ IF t.kind = "ResultTask"
          THEN ~finished[t.outputId]
          ELSE stages[t.stageId].outputLocs[t.partition] = <<>>

(***************************************************************************)
(* Properties of the cluster scheduler's bookkeeping maps.                 *)
(***************************************************************************)
\* the number of tracked task ids that map to the slave
tasksOn(slave) ==
  Cardinality({t \in DOMAIN taskIdToSlaveId : taskIdToSlaveId[t] = slave})

\* a statusUpdate call with this task id and state would change nothing
dropsUpdate(tid, state) ==
  ~ENABLED (/\ statusUpdate(tid, state)
            /\ UNCHANGED otherVars
            /\ mesosVars' # mesosVars)

\* a statusUpdate call with this task id and state would leave the
\* scheduler's maps as they are
keepsBookkeeping(tid, state) ==
  ~ENABLED (/\ statusUpdate(tid, state)
            /\ UNCHANGED otherVars
            /\ <<taskIdToJobId, taskIdToSlaveId, jobTasks, slaveTasks,
                 slaveFailed, activeJobs, activeJobsQueue>>'
                 # <<taskIdToJobId, taskIdToSlaveId, jobTasks, slaveTasks,
                      slaveFailed, activeJobs, activeJobsQueue>>)

\* the task id is tracked and its job is active
trackedOfActiveJob(tid) ==
  tid \in DOMAIN taskIdToJobId /\ taskIdToJobId[tid] \in activeJobs

\* an update for a task id that is not tracked or whose job is not active is
\* dropped, and TASK_RUNNING changes no map
ignoresTheRest ==
  (started /\ isRegistered) =>
    \A tid \in TaskIds :
      /\ ~trackedOfActiveJob(tid) =>
           \A state \in TaskStates : dropsUpdate(tid, state)
      /\ keepsBookkeeping(tid, "TASK_RUNNING")

\* this step is a terminal status update of the tracked task tid: the task
\* id leaves taskIdToJobId and the active jobs stay
terminalOf(tid) ==
  /\ tid \in DOMAIN taskIdToJobId
  /\ tid \notin DOMAIN taskIdToJobId'
  /\ activeJobs' = activeJobs
  /\ activeJobs # {}

\* the step has taken the task id out of the three maps, and nothing else
untracks(tid) ==
  /\ taskIdToJobId' = Del(taskIdToJobId, tid)
  /\ taskIdToSlaveId' = Del(taskIdToSlaveId, tid)
  /\ jobTasks' = [jobTasks EXCEPT ![taskIdToJobId[tid]] = @ \ {tid}]
  /\ \A state \in TaskStates : dropsUpdate(tid, state)'

lastSuccessOf(s) ==
  /\ emptied(s)
  /\ stages'[s].outputLocs # stages[s].outputLocs
  /\ s \in running /\ s \notin running'

\* C23: when the Success of a task empties the pending set of a shuffle-map
\* stage and the stage leaves running, every partition of the stage has an
\* output location, whatever Success and FetchFailed events its tasks have
\* reported before.
C23_CompleteWhenPendingEmpties ==
  [][\A s \in DOMAIN stages : lastSuccessOf(s) => hasOutputs(s)']_vars

\* the same while no task has reported a failure
C23_CompleteWithoutFailures ==
  [][\A s \in DOMAIN stages :
       (lastSuccessOf(s) /\ failures = 0) => hasOutputs(s)']_vars

\* this step is jobFinished for the active job jid
finishes(jid) == jid \in activeJobs /\ activeJobs' = activeJobs \ {jid}

\* the elements of a queue
elements(q) == {q[i] : i \in DOMAIN q}

\* the job and its task ids have left every map
unlinked(jid) ==
  /\ jid \notin activeJobs'
  /\ jid \notin elements(activeJobsQueue')
  /\ jid \notin DOMAIN jobTasks'
  /\ \A t \in DOMAIN taskIdToJobId' \cup DOMAIN taskIdToSlaveId' : t[1] # jid

\* what the step leaves of the other jobs is what there was
othersKept(jid) ==
  /\ \A j \in DOMAIN jobTasks \ {jid} :
       j \in DOMAIN jobTasks' /\ jobTasks'[j] = jobTasks[j]
  /\ \A t \in DOMAIN taskIdToJobId :
       t[1] # jid => /\ t \in DOMAIN taskIdToJobId'
                     /\ taskIdToJobId'[t] = taskIdToJobId[t]
                     /\ taskIdToSlaveId'[t] = taskIdToSlaveId[t]

\* the counters of the slaves are reset exactly when no job is left
countersReset ==
  IF activeJobs' = {}
  THEN slaveTasks' = Empty /\ slaveFailed' = Empty
  ELSE UNCHANGED <<slaveTasks, slaveFailed>>

\* a jobFinished call for this job would change nothing
ignoresFinish(jid) ==
  ~ENABLED (/\ jobFinished(jid)
            /\ UNCHANGED otherVars
            /\ mesosVars' # mesosVars)

\* C22: jobFinished for an active job takes the job out of activeJobs,
\* activeJobsQueue and jobTasks and its task ids out of taskIdToJobId and
\* taskIdToSlaveId, keeps what belongs to the other jobs, and clears
\* slaveTasks and slaveFailed exactly when no active job remains; jobFinished
\* for a job that is not active changes nothing.
C22_JobFinishedUnlinks ==
  /\ [](\A jid \in DOMAIN jobs \ activeJobs : ignoresFinish(jid))
  /\ [][\A jid \in DOMAIN jobs :
          finishes(jid) =>
            (unlinked(jid) /\ othersKept(jid) /\ countersReset)]_vars

\* a job has finished with its tasks still counted on a slave while another
\* job is active
C22_Witness ==
  /\ lost = 0
  /\ Cardinality(activeJobs) = 1
  /\ DOMAIN jobs \ activeJobs # {}
  /\ \E s \in Slaves : Get(slaveTasks, s, 0) > tasksOn(s)

\* C24: the counter of every slave (0 when it has none) is the number of
\* tracked task ids that map to the slave, and it is never negative.
C24_CounterMatchesTrackedTasks ==
  activeJobs # {} =>
    \A s \in Slaves :
      /\ Get(slaveTasks, s, 0) = tasksOn(s)
      /\ Get(slaveTasks, s, 0) >= 0

\* the counter of a slave is never negative
C24_CounterNeverNegative ==
  activeJobs # {} => \A s \in Slaves : Get(slaveTasks, s, 0) >= 0

\* the counter of a slave is the number of its tracked task ids as long as
\* no executor and no slave has been lost
C24_CounterMatchesUntilLost ==
  (activeJobs # {} /\ lost = 0) =>
    \A s \in Slaves : Get(slaveTasks, s, 0) = tasksOn(s)

\* the counter of a slave is at least the number of its tracked task ids as
\* long as no executor and no slave has been lost
C24_CounterCoversUntilLost ==
  lost = 0 => \A s \in Slaves : Get(slaveTasks, s, 0) >= tasksOn(s)

\* C25: taskIdToJobId and taskIdToSlaveId have the same keys, the keys are
\* the union of the sets of jobTasks, every task id is in the set of exactly
\* the job taskIdToJobId maps it to, and jobTasks has the keys of activeJobs.
C25_MapsAgree ==
  /\ DOMAIN taskIdToJobId = DOMAIN taskIdToSlaveId
  /\ DOMAIN taskIdToJobId = UNION {jobTasks[j] : j \in DOMAIN jobTasks}
  /\ \A t \in DOMAIN taskIdToJobId :
       \A j \in DOMAIN jobTasks : t \in jobTasks[j] <=> j = taskIdToJobId[t]
  /\ DOMAIN jobTasks = activeJobs

C25_Witness ==
  /\ Cardinality(activeJobs) = 2
  /\ \A j \in activeJobs : jobTasks[j] # {}
  /\ \E t \in DOMAIN taskIdToJobId : t[3] > 0
  /\ lost > 0

====
